---- MODULE Spec2Model ----
(***************************************************************************)
(* A model of the stock reconciliation and sales aggregation code of the   *)
(* FuelBoss server: the relational tables the storage layer reads and      *)
(* writes, the storage operations of DatabaseStorage (src/storage.ts) and  *)
(* the HTTP routes that call them (src/unnamed/part_001).                  *)
(*                                                                         *)
(* Representation.                                                         *)
(*  - decimal(10,2) columns are integers (hundredths); the rounding of     *)
(*    parseFloat on binary doubles is not modelled.                        *)
(*  - a "YYYY-MM-DD" string and a timestamp are both the ordinal of the    *)
(*    day in a non-leap year (1 = January 1st); for well-formed dates the  *)
(*    string order used by SQL is the order of the ordinals.               *)
(*  - a nullable value is <<>> (SQL NULL, JS null/undefined) or <<v>>.     *)
(*  - stock_entries is a sequence in insertion order: created_at (set by   *)
(*    defaultNow() on insert) grows with the position.                     *)
(*  - shifts is a sequence in the order of updated_at: every INSERT and    *)
(*    every UPDATE of the code stamps the row with the current time, so    *)
(*    the row written last is the last of the sequence.                    *)
(*  - a shifts row's id is the number of rows at its insertion (rows are   *)
(*    never deleted).                                                      *)
(*  - a rate list (the jsonb array product_rates) is a sequence of rates.  *)
(*  - nozzle_readings and shift_sales are bags of rows: no modelled query  *)
(*    reads their id or created_at, and UPDATE ... WHERE id = x changes    *)
(*    one row of the bag.                                                  *)
(***************************************************************************)
EXTENDS Integers, Sequences, FiniteSets, Bags, TLC

VARIABLES
    tanks,            \* tanks table: tank id -> [retailOutletId, isActive]
    stockEntries,     \* stock_entries table, in insertion order
    nozzleReadings,   \* nozzle_readings table, a bag of rows
    shiftSales,       \* shift_sales table, a bag of rows
    shifts,           \* shifts table, least recently updated row first
    staff,            \* staff table: staff id -> [retailOutletId, role, phoneNumber, password, isActive]
    sessions,         \* the session store: session id -> [managerId, userType, history]
    calls,            \* the requests in flight: each handler's position and locals
    lastSaved,        \* history: the rates each manager last saved per shift type
    now,              \* the server clock: the ordinal of the current day
    resp              \* the response of the last request handled

vars == <<tanks, stockEntries, nozzleReadings, shiftSales, shifts, staff, sessions, calls, lastSaved,
          now, resp>>

-----------------------------------------------------------------------------
(* Bounds of the model *)

MaxStockEntries == 2
MaxReadings == 2
MaxShiftSales == 2
MaxTicks == 2
MaxLimit == 3
MaxShifts == 2
PoolSize == 12

-----------------------------------------------------------------------------
(* Nullable values *)

NULL == <<>>

Some(v) == <<v>>

\* COALESCE(x, d) in SQL; (x || d) in JS for a value that is absent or a
\* non-empty decimal string
Coalesce(x, d) == IF x = NULL THEN d ELSE x[1]

Max(a, b) == IF a >= b THEN a ELSE b

Min(a, b) == IF a <= b THEN a ELSE b

\* the elements of a bag, one entry per copy, in some order
RECURSIVE BagSeq(_)
BagSeq(B) ==
    IF BagToSet(B) = {} THEN <<>>
    ELSE LET x == CHOOSE y \in BagToSet(B) : TRUE
         IN  <<x>> \o BagSeq(B (-) SetToBag({x}))


\* SQL SUM over a sequence of nullable values: NULLs are skipped, and the
\* sum of no non-NULL value is NULL
RECURSIVE SqlSum(_)
SqlSum(vals) ==
    IF vals = <<>> THEN NULL
    ELSE LET rest == SqlSum(Tail(vals))
         IN  IF Head(vals) = NULL THEN rest
             ELSE IF rest = NULL THEN Head(vals)
             ELSE Some(Head(vals)[1] + rest[1])

-----------------------------------------------------------------------------
(* Reference data: outlets, their owners, staff, tanks and nozzles *)

Outlets == {"A", "B"}

\* retail_outlets.owner_id: the users that own an outlet; "uX" owns none
Owners == {"uA", "uB", "uX"}

\* getRetailOutletByOwnerId: the outlet of an owner, or NULL
getRetailOutletByOwnerId(u) ==
    IF u = "uA" THEN Some("A") ELSE IF u = "uB" THEN Some("B") ELSE NULL

\* staff.retail_outlet_id of the managers and attendants
StaffOutlet == [mA |-> "A", mB |-> "B", s1 |-> "A", s2 |-> "A", s3 |-> "B"]

TankIds == {"t1", "t2", "t3"}

\* tanks in the order of tanks.tank_number
TankOrder == <<"t1", "t2", "t3">>

TankOutlet == [t1 |-> "A", t2 |-> "A", t3 |-> "B"]

\* nozzles.tank_id
NozzleTank == [n1 |-> "t1", n2 |-> "t2", n3 |-> "t3"]

\* January 1st .. December 31st of a non-leap year
DaysInMonth == <<31, 28, 31, 30, 31, 30, 31, 31, 30, 31, 30, 31>>

\* the days of the year before month m; month 0 is December of the year before
RECURSIVE DaysBefore(_)
DaysBefore(m) ==
    IF m = 0 THEN 0 - 31
    ELSE IF m = 1 THEN 0
    ELSE DaysBefore(m - 1) + DaysInMonth[m - 1]

\* the ordinal of day d of month m, as the Date constructor normalises it:
\* a day past the end of the month runs on into the next month
Ordinal(m, d) == DaysBefore(m) + d

\* Date.getMonth() + 1
MonthOf(day) == CHOOSE m \in 1..12 : DaysBefore(m) < day /\ day <= DaysBefore(m) + DaysInMonth[m]

\* Date.getDate()
DayOf(day) == day - DaysBefore(MonthOf(day))

\* the day the model's clock starts at: March 30th
FirstDay == Ordinal(3, 30)

-----------------------------------------------------------------------------
(* The state after construction: the reference data and empty fact tables *)

NoResp == [op |-> "none", status |-> 0]

\* the staff members that are managers
Managers == {"mA", "mB"}

\* the shift types the requests of the model name
ShiftTypes == {"morning", "evening"}

\* the staff table: the managers and an attendant of outlet A hold a phone
\* number and a password, every member is active
StaffTable ==
    [id \in DOMAIN StaffOutlet |->
        [retailOutletId |-> StaffOutlet[id],
         role |-> IF id \in Managers THEN "manager" ELSE "attendant",
         phoneNumber |-> IF id \in Managers \cup {"s1"} THEN Some("phone-" \o id) ELSE NULL,
         password |-> IF id \in Managers \cup {"s1"} THEN Some("pw-" \o id) ELSE NULL,
         isActive |-> TRUE]]

\* the sessions of the clients of the model
SessionIds == {1, 2}

\* a session without manager login; history records whether a login that
\* matched an active manager completed in the session since it was created
\* or last destroyed, and no code reads it
NoSession == [managerId |-> NULL, userType |-> NULL, history |-> FALSE]

NoSessions == [s \in SessionIds |-> NoSession]

\* no manager has saved rates for any shift type
NoneSaved == [m \in Managers |-> [t \in ShiftTypes |-> NULL]]

Init ==
    /\ tanks = [t \in TankIds |-> [retailOutletId |-> TankOutlet[t], isActive |-> TRUE]]
    /\ stockEntries = <<>>
    /\ nozzleReadings = EmptyBag
    /\ shiftSales = EmptyBag
    /\ shifts = <<>>
    /\ staff = StaffTable
    /\ sessions = NoSessions
    /\ calls = {}
    /\ lastSaved = NoneSaved
    /\ now = FirstDay
    /\ resp = NoResp

-----------------------------------------------------------------------------
(* Rows and request bodies *)

\* {...row, ...patch}: the fields a partial body names replace the row's
Merge(row, patch) ==
    [f \in DOMAIN row |-> IF f \in DOMAIN patch THEN patch[f] ELSE row[f]]

\* the sub-bag of the rows of B that satisfy P
BagFilter(B, P(_)) ==
    LET S == {x \in BagToSet(B) : P(x)}
    IN  [x \in S |-> B[x]]

\* B with one copy of row old replaced by row new
BagReplace(B, old, new) == (B (-) SetToBag({old})) (+) SetToBag({new})

\* a stock entry as POST /api/manager/stock stores it: the body, with
\* retailOutletId and managerId taken from the manager's session
StockRow(m, body) ==
    [retailOutletId |-> StaffOutlet[m], managerId |-> m,
     tankId |-> body.tankId, shiftType |-> body.shiftType,
     shiftDate |-> body.shiftDate,
     openingStock |-> body.openingStock, receipt |-> body.receipt]

\* a nozzle reading as POST /api/manager/readings stores it: the body, with
\* retailOutletId taken from the manager's session
ReadingRow(m, body) ==
    [retailOutletId |-> StaffOutlet[m],
     nozzleId |-> body.nozzleId, attendantId |-> body.attendantId,
     shiftType |-> body.shiftType, shiftDate |-> body.shiftDate,
     previousReading |-> body.previousReading,
     currentReading |-> body.currentReading, testing |-> body.testing,
     totalSale |-> body.totalSale, cashSales |-> body.cashSales,
     creditSales |-> body.creditSales, upiSales |-> body.upiSales,
     cardSales |-> body.cardSales]

-----------------------------------------------------------------------------
(* DatabaseStorage.getTanksByRetailOutletId: the current stock of a tank *)

\* ORDER BY shift_date ASC, created_at ASC: the order reversed
StockEntryOrderAsc(i, j) ==
    \/ stockEntries[i].shiftDate < stockEntries[j].shiftDate
    \/ /\ stockEntries[i].shiftDate = stockEntries[j].shiftDate
       /\ i <= j

\* ORDER BY shift_date DESC, created_at DESC: entry i is not after entry j
StockEntryOrder(i, j) ==
    \/ stockEntries[i].shiftDate > stockEntries[j].shiftDate
    \/ /\ stockEntries[i].shiftDate = stockEntries[j].shiftDate
       /\ i >= j

\* the latest-entry query without its WHERE tank_id = tank
latestStockEntryAnyTank(tankId) ==
    LET idx == 1..Len(stockEntries)
    IN  IF idx = {} THEN NULL
        ELSE Some(stockEntries[CHOOSE i \in idx : \A j \in idx : StockEntryOrder(i, j)])

\* the first row of the tank's stock entries in that order (LIMIT 1), or NULL
latestStockEntry(tankId) ==
    LET idx == {i \in 1..Len(stockEntries) : stockEntries[i].tankId = tankId}
    IN  IF idx = {} THEN NULL
        ELSE Some(stockEntries[CHOOSE i \in idx : \A j \in idx : StockEntryOrder(i, j)])

\* the date cutoff of a tank without entries taken as the beginning of time
stockEntryDateAllTime(entry) == IF entry = NULL THEN 0 ELSE entry[1].shiftDate

\* latestStockEntry[0]?.shiftDate || today
stockEntryDate(entry) == IF entry = NULL THEN now ELSE entry[1].shiftDate

\* the WHERE clause with the date compared by > instead of >=
DispensedWhereExclusive(r, tankId, cutoff) ==
    NozzleTank[r.nozzleId] = tankId /\ r.shiftDate > cutoff

\* the WHERE clause without the join condition on the tank
DispensedWhereAnyTank(r, tankId, cutoff) ==
    r.shiftDate >= cutoff

\* nozzle_readings JOIN nozzles WHERE nozzles.tank_id = tank AND
\* nozzle_readings.shift_date >= cutoff
DispensedWhere(r, tankId, cutoff) ==
    NozzleTank[r.nozzleId] = tankId /\ r.shiftDate >= cutoff

\* the rows the dispensed-volume query sums
DispensedRows(tankId, cutoff) ==
    LET P(r) == DispensedWhere(r, tankId, cutoff)
    IN  BagFilter(nozzleReadings, P)

\* the dispensed sum with the two meter readings exchanged
totalDispensedReversed(tankId, cutoff) ==
    LET rows == BagSeq(DispensedRows(tankId, cutoff))
        vols == [i \in 1..Len(rows) |->
                   Some(rows[i].previousReading - rows[i].currentReading
                        - Coalesce(rows[i].testing, 0))]
    IN  Coalesce(SqlSum(vols), 0)

\* COALESCE(SUM(current - previous - COALESCE(testing, 0)), 0), then
\* parseFloat(totalDispensed || "0")
totalDispensed(tankId, cutoff) ==
    LET rows == BagSeq(DispensedRows(tankId, cutoff))
        vols == [i \in 1..Len(rows) |->
                   Some(rows[i].currentReading - rows[i].previousReading
                        - Coalesce(rows[i].testing, 0))]
    IN  Coalesce(SqlSum(vols), 0)

\* the result without the floor at zero
ClampStockNone(x) == x

\* Math.max(0, x)
ClampStock(x) == Max(0, x)

\* the current stock drifting with every repeated request
currentStockDrifting(tankId) ==
    LET entry == latestStockEntry(tankId)
        openingStock == IF entry = NULL THEN 0 ELSE entry[1].openingStock
        receipts == IF entry = NULL THEN 0 ELSE entry[1].receipt
        dispensed == totalDispensed(tankId, stockEntryDate(entry))
    IN  ClampStock(openingStock + receipts - dispensed)
            + (IF resp.op = "getTanks" THEN 1 ELSE 0)

\* the current stock computed for one tank
currentStock(tankId) ==
    LET entry == latestStockEntry(tankId)
        openingStock == IF entry = NULL THEN 0 ELSE entry[1].openingStock
        receipts == IF entry = NULL THEN 0 ELSE entry[1].receipt
        dispensed == totalDispensed(tankId, stockEntryDate(entry))
    IN  ClampStock(openingStock + receipts - dispensed)

\* the requests in flight after a write: a current-stock computation in
\* flight records that a write landed while it ran (overlapped) and the
\* current stock of the database state the write produced (seen); both are
\* history, no code reads them
AfterWrite ==
    {IF k.op = "currentStock"
     THEN [k EXCEPT !.seen = @ \cup {currentStock(k.tankId)'}, !.overlapped = TRUE]
     ELSE k : k \in calls}

\* the tanks query with the isActive condition left out
TankSelectedAny(t, retailOutletId) ==
    tanks[t].retailOutletId = retailOutletId

\* WHERE tanks.retail_outlet_id = outlet AND tanks.is_active = true
TankSelected(t, retailOutletId) ==
    tanks[t].retailOutletId = retailOutletId /\ tanks[t].isActive

\* the outlet's active tanks in tank-number order, each with its current stock
getTanksByRetailOutletId(retailOutletId) ==
    LET P(t) == TankSelected(t, retailOutletId)
        sel == SelectSeq(TankOrder, P)
    IN  [i \in 1..Len(sel) |-> [id |-> sel[i], currentStock |-> currentStock(sel[i])]]

-----------------------------------------------------------------------------
(* Routes of the stock reconciliation engine *)

\* GET /api/tanks; the response is recorded with the day it was computed on
\* (at) and with whether the response before it was one of the same request
\* on the same day (again)
GetTanks(u) ==
    /\ LET outlet == getRetailOutletByOwnerId(u)
           o == IF outlet = NULL THEN "" ELSE outlet[1]
           again == resp.op = "getTanks" /\ resp.outlet = o /\ resp.at = now
       IN  resp' = IF outlet = NULL
                   THEN [op |-> "getTanks", status |-> 404, outlet |-> o, at |-> now,
                         again |-> again, body |-> <<>>]
                   ELSE [op |-> "getTanks", status |-> 200, outlet |-> o, at |-> now,
                         again |-> again, body |-> getTanksByRetailOutletId(o)]
    /\ UNCHANGED <<staff, sessions, calls, shifts, lastSaved, tanks, stockEntries,
                   nozzleReadings, shiftSales, now>>

\* DELETE /api/tanks/:id: deleteTank clears is_active
DeleteTank(t) ==
    /\ tanks' = [tanks EXCEPT ![t].isActive = FALSE]
    /\ resp' = [op |-> "deleteTank", status |-> 200]
    /\ UNCHANGED <<staff, sessions, calls, shifts, lastSaved, stockEntries, nozzleReadings,
                   shiftSales, now>>

\* POST /api/manager/stock
CreateStockEntry(m, body) ==
    /\ Len(stockEntries) < MaxStockEntries
    /\ stockEntries' = Append(stockEntries, StockRow(m, body))
    /\ resp' = [op |-> "createStockEntry", status |-> 201]
    /\ UNCHANGED <<staff, sessions, shifts, lastSaved, tanks, nozzleReadings, shiftSales, now>>
    /\ calls' = AfterWrite

\* PATCH /api/manager/stock/:id: the body is applied to the row with that
\* id; an id that names no row changes nothing
UpdateStockEntry(id, patch) ==
    /\ stockEntries' = IF id \in 1..Len(stockEntries)
                       THEN [stockEntries EXCEPT ![id] = Merge(@, patch)]
                       ELSE stockEntries
    /\ resp' = [op |-> "updateStockEntry", status |-> 200]
    /\ UNCHANGED <<staff, sessions, shifts, lastSaved, tanks, nozzleReadings, shiftSales, now>>
    /\ calls' = AfterWrite

\* POST /api/manager/readings
CreateNozzleReading(m, body) ==
    /\ BagCardinality(nozzleReadings) < MaxReadings
    /\ nozzleReadings' = nozzleReadings (+) SetToBag({ReadingRow(m, body)})
    /\ resp' = [op |-> "createNozzleReading", status |-> 201]
    /\ UNCHANGED <<staff, sessions, shifts, lastSaved, tanks, stockEntries, shiftSales, now>>
    /\ calls' = AfterWrite

\* PATCH /api/manager/readings/:id: the body, with retailOutletId taken from
\* the manager's session, is applied to the row with that id
UpdateNozzleReading(m, row, patch) ==
    /\ row \in BagToSet(nozzleReadings)
    /\ nozzleReadings' =
         BagReplace(nozzleReadings, row,
                    [Merge(row, patch) EXCEPT !.retailOutletId = StaffOutlet[m]])
    /\ resp' = [op |-> "updateNozzleReading", status |-> 200]
    /\ UNCHANGED <<staff, sessions, shifts, lastSaved, tanks, stockEntries, shiftSales, now>>
    /\ calls' = AfterWrite

-----------------------------------------------------------------------------
(* The stock specification: a manager of outlet A enters stock entries and *)
(* readings for tanks t1 and t2, an owner retires tank t2, and owners read *)
(* the current stock.                                                      *)

StockDates == {FirstDay - 1, FirstDay, FirstDay + 1}

StockBody(t, d, opening, receipt) ==
    [tankId |-> t, shiftType |-> "morning", shiftDate |-> d,
     openingStock |-> opening, receipt |-> receipt]

StockBodies ==
    {StockBody("t1", FirstDay, 5, 3), StockBody("t1", FirstDay, 2, 0),
     StockBody("t1", FirstDay + 1, 5, 3), StockBody("t2", FirstDay, 5, 3)}

StockPatches == {[shiftDate |-> FirstDay], [shiftDate |-> FirstDay + 1]}

\* a reading body with the sales amounts left at zero
VolumeBody(n, d, prev, cur, testing) ==
    [nozzleId |-> n, attendantId |-> "s1", shiftType |-> "morning",
     shiftDate |-> d, previousReading |-> prev, currentReading |-> cur,
     testing |-> testing, totalSale |-> 0, cashSales |-> Some(0),
     creditSales |-> Some(0), upiSales |-> Some(0), cardSales |-> Some(0)]

StockReadingBodies ==
    {VolumeBody("n1", d, 0, 4, NULL) : d \in StockDates}
    \cup {VolumeBody("n1", d, 0, 9, Some(1)) : d \in StockDates}
    \cup {VolumeBody("n2", FirstDay, 3, 1, Some(0))}

StockReadingPatches ==
    {[previousReading |-> 0, currentReading |-> 4, testing |-> NULL]}

NextStock ==
    \/ \E body \in StockBodies : CreateStockEntry("mA", body)
    \/ \E id \in 1..(MaxStockEntries + 1), patch \in StockPatches :
          UpdateStockEntry(id, patch)
    \/ \E body \in StockReadingBodies : CreateNozzleReading("mA", body)
    \/ \E row \in BagToSet(nozzleReadings), patch \in StockReadingPatches :
          UpdateNozzleReading("mA", row, patch)
    \/ DeleteTank("t2")
    \/ \E u \in {"uA", "uX"} : GetTanks(u)

SpecStock == Init /\ [][NextStock]_vars

-----------------------------------------------------------------------------
(* Properties of the current stock, stated over the stored rows *)

\* the positions of the stock entries of tank t
EntriesOf(t) == {i \in 1..Len(stockEntries) : stockEntries[i].tankId = t}

\* the entry of tank t with the greatest shiftDate, the latest created among
\* those of that date
SelectedEntry(t) ==
    stockEntries[CHOOSE i \in EntriesOf(t) : \A j \in EntriesOf(t) :
                    \/ stockEntries[j].shiftDate < stockEntries[i].shiftDate
                    \/ /\ stockEntries[j].shiftDate = stockEntries[i].shiftDate
                       /\ j <= i]

\* the readings of the nozzles that draw from tank t
ReadingsOfTank(t) ==
    BagFilter(nozzleReadings, LAMBDA r : NozzleTank[r.nozzleId] = t)

\* the volume one reading dispensed, a missing testing volume counted as 0
Volume(r) ==
    r.currentReading - r.previousReading - (IF r.testing = NULL THEN 0 ELSE r.testing[1])

\* the volume dispensed by all the readings of a bag
RECURSIVE VolumeSum(_)
VolumeSum(B) ==
    IF BagToSet(B) = {} THEN 0
    ELSE LET r == CHOOSE x \in BagToSet(B) : TRUE
         IN  B[r] * Volume(r) + VolumeSum([x \in BagToSet(B) \ {r} |-> B[x]])

\* the volume dispensed from tank t by readings dated d or later
DispensedSince(t, d) ==
    VolumeSum(BagFilter(ReadingsOfTank(t), LAMBDA r : r.shiftDate >= d))

\* the last request was a successful GET /api/tanks
TanksReturned == resp.op = "getTanks" /\ resp.status = 200

\* C1: every tank returned that has a stock entry reports
\* max(0, openingStock + receipt - D), with openingStock and receipt of the
\* entry of greatest shiftDate (latest created on a tie) and D the volume of
\* the tank's readings dated on or after that entry
C1_CurrentStockFormula ==
    TanksReturned =>
        \A k \in 1..Len(resp.body) :
            LET t == resp.body[k].id
                e == SelectedEntry(t)
            IN  EntriesOf(t) # {} =>
                    resp.body[k].currentStock =
                        Max(0, e.openingStock + e.receipt - DispensedSince(t, e.shiftDate))

\* a tank with two entries of the same greatest date and different amounts,
\* a deducted reading without testing volume, and stock left over
C1_Witness ==
    /\ TanksReturned
    /\ \E k \in 1..Len(resp.body) :
          LET t == resp.body[k].id
          IN  /\ \E i, j \in EntriesOf(t) :
                    /\ i < j
                    /\ stockEntries[i].shiftDate = stockEntries[j].shiftDate
                    /\ stockEntries[i].shiftDate = SelectedEntry(t).shiftDate
                    /\ stockEntries[i].openingStock # stockEntries[j].openingStock
              /\ \E r \in BagToSet(ReadingsOfTank(t)) :
                    r.testing = NULL /\ r.shiftDate >= SelectedEntry(t).shiftDate
              /\ resp.body[k].currentStock > 0

\* C2: the current stock reported is never negative, and it is exactly 0
\* when the volume dispensed since the selected entry exceeds
\* openingStock + receipt
C2_NeverNegative ==
    TanksReturned =>
        \A k \in 1..Len(resp.body) :
            LET t == resp.body[k].id
                e == SelectedEntry(t)
            IN  /\ resp.body[k].currentStock >= 0
                /\ (/\ EntriesOf(t) # {}
                    /\ DispensedSince(t, e.shiftDate) > e.openingStock + e.receipt)
                   => resp.body[k].currentStock = 0

\* a tank whose readings dispensed more than its entry holds
C2_Witness ==
    /\ TanksReturned
    /\ \E k \in 1..Len(resp.body) :
          LET t == resp.body[k].id
              e == SelectedEntry(t)
          IN  /\ EntriesOf(t) # {}
              /\ DispensedSince(t, e.shiftDate) > e.openingStock + e.receipt
              /\ resp.body[k].currentStock = 0

\* C3: when all the readings of a tank are dated exactly on the selected
\* entry's shiftDate they are all deducted, and when they are all dated
\* before it none is
C3_InclusiveBoundary ==
    TanksReturned =>
        \A k \in 1..Len(resp.body) :
            LET t == resp.body[k].id
                e == SelectedEntry(t)
                rs == BagToSet(ReadingsOfTank(t))
            IN  EntriesOf(t) # {} =>
                    /\ (\A r \in rs : r.shiftDate = e.shiftDate) =>
                          resp.body[k].currentStock =
                              Max(0, e.openingStock + e.receipt
                                     - VolumeSum(ReadingsOfTank(t)))
                    /\ (\A r \in rs : r.shiftDate < e.shiftDate) =>
                          resp.body[k].currentStock =
                              Max(0, e.openingStock + e.receipt)

\* a tank whose readings are all dated on the entry's date and lower the
\* stock, and a tank whose readings are all earlier and leave it alone
C3_Witness ==
    /\ TanksReturned
    /\ \E k \in 1..Len(resp.body) :
          LET t == resp.body[k].id
              e == SelectedEntry(t)
              rs == BagToSet(ReadingsOfTank(t))
          IN  /\ EntriesOf(t) # {}
              /\ rs # {}
              /\ \A r \in rs : r.shiftDate = e.shiftDate
              /\ resp.body[k].currentStock > 0
              /\ resp.body[k].currentStock < e.openingStock + e.receipt

\* C4: a tank without stock entries and without readings reports exactly 0,
\* in a successful response
C4_EmptyTankIsZero ==
    resp.op = "getTanks" /\ resp.outlet # "" =>
        /\ resp.status = 200
        /\ \A k \in 1..Len(resp.body) :
              LET t == resp.body[k].id
              IN  (EntriesOf(t) = {} /\ BagToSet(ReadingsOfTank(t)) = {})
                  => resp.body[k].currentStock = 0

\* an empty tank is returned beside a tank that has readings
C4_Witness ==
    /\ TanksReturned
    /\ \E k \in 1..Len(resp.body) :
          LET t == resp.body[k].id
          IN  /\ EntriesOf(t) = {}
              /\ BagToSet(ReadingsOfTank(t)) = {}
              /\ resp.body[k].currentStock = 0
    /\ BagToSet(nozzleReadings) # {}

-----------------------------------------------------------------------------
(* DatabaseStorage.getShiftSalesByRetailOutletId: shift sales summarised *)
(* from the nozzle readings                                               *)

DefaultLimit == 10

\* shift types in the order a varchar column sorts them
ShiftTypeOrder == <<"evening", "morning", "night">>

ShiftTypeRank(t) == CHOOSE i \in 1..Len(ShiftTypeOrder) : ShiftTypeOrder[i] = t

\* the WHERE clause with the outlet condition left out
SalesWhereAnyOutlet(r, retailOutletId) == TRUE

\* nozzle_readings JOIN staff ON attendant_id = staff.id (every reading has
\* its attendant, by the foreign key) WHERE retail_outlet_id = outlet
SalesWhere(r, retailOutletId) == r.retailOutletId = retailOutletId

\* GROUP BY shift_date, shift_type, attendant_id, staff.name
GroupKeyOf(r) == <<r.shiftDate, r.shiftType, r.attendantId>>

\* the group keys of the outlet's readings
ShiftGroupKeys(retailOutletId) ==
    {GroupKeyOf(r) : r \in {x \in BagToSet(nozzleReadings) : SalesWhere(x, retailOutletId)}}

\* the rows of one group
ShiftGroupRows(retailOutletId, key) ==
    BagSeq(BagFilter(nozzleReadings,
                     LAMBDA r : SalesWhere(r, retailOutletId) /\ GroupKeyOf(r) = key))

\* one summary record: SUM(column) || "0" for each amount
ShiftGroupRecord(retailOutletId, key) ==
    LET rows == ShiftGroupRows(retailOutletId, key)
        n == Len(rows)
    IN  [shiftDate |-> key[1], shiftType |-> key[2], staffId |-> key[3],
         cashSales |-> Coalesce(SqlSum([i \in 1..n |-> rows[i].cashSales]), 0),
         creditSales |-> Coalesce(SqlSum([i \in 1..n |-> rows[i].creditSales]), 0),
         upiSales |-> Coalesce(SqlSum([i \in 1..n |-> rows[i].upiSales]), 0),
         cardSales |-> Coalesce(SqlSum([i \in 1..n |-> rows[i].cardSales]), 0),
         totalSales |-> Coalesce(SqlSum([i \in 1..n |-> Some(rows[i].totalSale)]), 0)]

\* ORDER BY shift_date ASC, shift_type: the dates the wrong way round
GroupBeforeAscending(a, b) ==
    \/ a[1] < b[1]
    \/ a[1] = b[1] /\ ShiftTypeRank(a[2]) < ShiftTypeRank(b[2])

\* ORDER BY shift_date DESC, shift_type: key a sorts strictly before key b
GroupBefore(a, b) ==
    \/ a[1] > b[1]
    \/ a[1] = b[1] /\ ShiftTypeRank(a[2]) < ShiftTypeRank(b[2])

\* every sequence of the keys K that the ORDER BY allows: the database is
\* free to return rows that compare equal in any order
RECURSIVE OrderedKeySeqs(_)
OrderedKeySeqs(K) ==
    IF K = {} THEN {<<>>}
    ELSE UNION {{<<k>> \o s : s \in OrderedKeySeqs(K \ {k})} :
                  k \in {x \in K : \A y \in K : ~GroupBefore(y, x)}}

\* LIMIT n
ApplyLimit(s, n) == SubSeq(s, 1, Min(n, Len(s)))

\* the results the query can return: the groups in an order the ORDER BY
\* allows, cut to the limit
getShiftSalesByRetailOutletId(retailOutletId, limit) ==
    {[i \in 1..Len(ks) |-> ShiftGroupRecord(retailOutletId, ks[i])] :
        ks \in {ApplyLimit(s, limit) : s \in OrderedKeySeqs(ShiftGroupKeys(retailOutletId))}}

\* GET /api/shift-sales: query is the limit parameter, NULL when absent;
\* limit = req.query.limit ? parseInt(req.query.limit) : 10
GetShiftSales(u, query) ==
    /\ LET outlet == getRetailOutletByOwnerId(u)
           limit == Coalesce(query, DefaultLimit)
       IN  IF outlet = NULL
           THEN resp' = [op |-> "getShiftSales", status |-> 404, outlet |-> "",
                         query |-> query, body |-> <<>>]
           ELSE \E body \in getShiftSalesByRetailOutletId(outlet[1], limit) :
                   resp' = [op |-> "getShiftSales", status |-> 200, outlet |-> outlet[1],
                            query |-> query, body |-> body]
    /\ UNCHANGED <<staff, sessions, calls, shifts, lastSaved, tanks, stockEntries,
                   nozzleReadings, shiftSales, now>>

-----------------------------------------------------------------------------
(* The sales specification: managers of two outlets enter and correct      *)
(* readings with payment amounts, and owners read the shift sales.         *)

\* payment amounts of a reading; the total need not be their sum
Payments ==
    {[totalSale |-> 10, cashSales |-> Some(4), creditSales |-> Some(3),
      upiSales |-> Some(2), cardSales |-> Some(1)],
     [totalSale |-> 7, cashSales |-> NULL, creditSales |-> Some(5),
      upiSales |-> NULL, cardSales |-> Some(1)]}

\* a reading body with the meter readings left at zero
SalesBody(a, d, t, pay) ==
    [nozzleId |-> "n1", attendantId |-> a, shiftType |-> t, shiftDate |-> d,
     previousReading |-> 0, currentReading |-> 0, testing |-> Some(0),
     totalSale |-> pay.totalSale, cashSales |-> pay.cashSales,
     creditSales |-> pay.creditSales, upiSales |-> pay.upiSales,
     cardSales |-> pay.cardSales]

SalesBodies ==
    {SalesBody(a, d, t, pay) : a \in {"s1", "s2"}, d \in {FirstDay, FirstDay + 1},
                               t \in {"morning", "evening"}, pay \in Payments}

SalesPatches == {[attendantId |-> "s2"], [shiftDate |-> FirstDay]}

LimitQueries == {NULL} \cup {Some(n) : n \in 0..MaxLimit}

NextSales ==
    \/ \E m \in {"mA", "mB"}, body \in SalesBodies : CreateNozzleReading(m, body)
    \/ \E m \in {"mA", "mB"}, row \in BagToSet(nozzleReadings), patch \in SalesPatches :
          UpdateNozzleReading(m, row, patch)
    \/ \E u \in Owners, query \in LimitQueries : GetShiftSales(u, query)

SpecSales == Init /\ [][NextSales]_vars

-----------------------------------------------------------------------------
(* The limit specification: an outlet that already holds the first n       *)
(* readings of a pool of PoolSize different shifts, but for one, and an    *)
(* owner reading its shift sales.                                          *)

\* the i-th reading of the pool: four readings a day, for two shift types
\* and two attendants
PoolReading(i) ==
    ReadingRow("mA",
        SalesBody(IF (i - 1) % 2 = 0 THEN "s1" ELSE "s2",
                  FirstDay - ((i - 1) \div 4),
                  IF ((i - 1) % 4) \div 2 = 0 THEN "morning" ELSE "evening",
                  [totalSale |-> i, cashSales |-> Some(i), creditSales |-> Some(0),
                   upiSales |-> Some(0), cardSales |-> Some(0)]))

InitLimit ==
    /\ tanks = [t \in TankIds |-> [retailOutletId |-> TankOutlet[t], isActive |-> TRUE]]
    /\ stockEntries = <<>>
    /\ nozzleReadings \in {SetToBag({PoolReading(i) : i \in (1..n) \ {h}}) :
                              n \in 0..PoolSize, h \in 0..PoolSize}
    /\ shiftSales = EmptyBag
    /\ shifts = <<>>
    /\ staff = StaffTable
    /\ sessions = NoSessions
    /\ calls = {}
    /\ lastSaved = NoneSaved
    /\ now = FirstDay
    /\ resp = NoResp

NextLimit == \E query \in LimitQueries : GetShiftSales("uA", query)

SpecLimit == InitLimit /\ [][NextLimit]_vars

-----------------------------------------------------------------------------
(* Properties of the shift sales summaries, stated over the stored rows *)

\* the readings stored for outlet o
OutletReadings(o) == BagFilter(nozzleReadings, LAMBDA r : r.retailOutletId = o)

\* the (shiftDate, shiftType, attendantId) of a reading or of a summary record
ReadingKey(r) == <<r.shiftDate, r.shiftType, r.attendantId>>

RecordKey(b) == <<b.shiftDate, b.shiftType, b.staffId>>

\* the distinct keys among the readings of outlet o
KeysOf(o) == {ReadingKey(r) : r \in BagToSet(OutletReadings(o))}

\* the sum of payment column f over a bag of readings, a missing amount
\* counted as 0
RECURSIVE PaymentSum(_, _)
PaymentSum(B, f) ==
    IF BagToSet(B) = {} THEN 0
    ELSE LET r == CHOOSE x \in BagToSet(B) : TRUE
         IN  B[r] * (IF r[f] = NULL THEN 0 ELSE r[f][1])
             + PaymentSum([x \in BagToSet(B) \ {r} |-> B[x]], f)

\* the sum of totalSale over a bag of readings
RECURSIVE TotalSaleSum(_)
TotalSaleSum(B) ==
    IF BagToSet(B) = {} THEN 0
    ELSE LET r == CHOOSE x \in BagToSet(B) : TRUE
         IN  B[r] * r.totalSale + TotalSaleSum([x \in BagToSet(B) \ {r} |-> B[x]])

\* the last request was a successful GET /api/shift-sales
SalesReturned == resp.op = "getShiftSales" /\ resp.status = 200

\* the limit in force: the one requested, 10 when none was
RequestedLimit == IF resp.query = NULL THEN 10 ELSE resp.query[1]

\* C6: with a limit that does not cut the result there is exactly one record
\* per distinct (shiftDate, shiftType, attendantId) of the outlet's readings,
\* and each amount of a record is the sum of that amount over exactly the
\* outlet's readings with the record's key
C6_GroupSums ==
    (SalesReturned /\ RequestedLimit >= Cardinality(KeysOf(resp.outlet))) =>
        /\ Len(resp.body) = Cardinality(KeysOf(resp.outlet))
        /\ {RecordKey(resp.body[k]) : k \in 1..Len(resp.body)} = KeysOf(resp.outlet)
        /\ \A k \in 1..Len(resp.body) :
              LET b == resp.body[k]
                  G == BagFilter(OutletReadings(resp.outlet),
                                 LAMBDA r : ReadingKey(r) = RecordKey(b))
              IN  /\ b.cashSales = PaymentSum(G, "cashSales")
                  /\ b.creditSales = PaymentSum(G, "creditSales")
                  /\ b.upiSales = PaymentSum(G, "upiSales")
                  /\ b.cardSales = PaymentSum(G, "cardSales")
                  /\ b.totalSales = TotalSaleSum(G)

\* a record that sums two different readings of one shift and attendant
C6_Witness ==
    /\ SalesReturned
    /\ \E k \in 1..Len(resp.body) :
          LET G == BagFilter(OutletReadings(resp.outlet),
                             LAMBDA r : ReadingKey(r) = RecordKey(resp.body[k]))
          IN  /\ Cardinality(BagToSet(G)) = 2
              /\ resp.body[k].totalSales = 17
              /\ resp.body[k].cashSales = 4

\* key a comes strictly before key b: later shiftDate first, then shiftType
KeyBefore(a, b) ==
    \/ a[1] > b[1]
    \/ a[1] = b[1] /\ ShiftTypeRank(a[2]) < ShiftTypeRank(b[2])

\* C7: the records returned are the first min(limit, number of groups)
\* groups by shiftDate descending and then shiftType, in that order; the
\* limit is 10 when none is given
C7_LimitAndOrder ==
    SalesReturned =>
        LET keys == KeysOf(resp.outlet)
            returned == {RecordKey(resp.body[k]) : k \in 1..Len(resp.body)}
        IN  /\ Len(resp.body) = Min(RequestedLimit, Cardinality(keys))
            /\ Cardinality(returned) = Len(resp.body)
            /\ returned \subseteq keys
            /\ \A i, j \in 1..Len(resp.body) :
                  i < j => ~KeyBefore(RecordKey(resp.body[j]), RecordKey(resp.body[i]))
            /\ \A g \in keys \ returned, b \in returned : ~KeyBefore(g, b)

\* no limit given, more than 10 groups stored, 10 records returned
C7_Witness ==
    /\ SalesReturned
    /\ resp.query = NULL
    /\ Cardinality(KeysOf(resp.outlet)) > 10
    /\ Len(resp.body) = 10

-----------------------------------------------------------------------------
(* DatabaseStorage.createShiftSales and getShiftSalesStats: the shift_sales *)
(* table and its trailing totals                                            *)

\* the row stored with the totalSales of the request body
ShiftSalesRowAsSent(retailOutletId, body) ==
    [retailOutletId |-> retailOutletId, staffId |-> body.staffId,
     shiftDate |-> body.shiftDate, shiftType |-> body.shiftType,
     cashSales |-> body.cashSales, creditSales |-> body.creditSales,
     upiSales |-> body.upiSales, cardSales |-> body.cardSales,
     totalSales |-> body.totalSales]

\* a shift_sales row as createShiftSales stores it: the validated body with
\* totalSales replaced by the sum of the four amounts, each Number(x || 0)
ShiftSalesRow(retailOutletId, body) ==
    [retailOutletId |-> retailOutletId, staffId |-> body.staffId,
     shiftDate |-> body.shiftDate, shiftType |-> body.shiftType,
     cashSales |-> body.cashSales, creditSales |-> body.creditSales,
     upiSales |-> body.upiSales, cardSales |-> body.cardSales,
     totalSales |-> Some(Coalesce(body.cashSales, 0) + Coalesce(body.creditSales, 0)
                         + Coalesce(body.upiSales, 0) + Coalesce(body.cardSales, 0))]

\* weekAgo = new Date(); weekAgo.setDate(weekAgo.getDate() - 7)
weekAgo(day) == Ordinal(MonthOf(day), DayOf(day) - 7)

\* monthAgo = new Date(); monthAgo.setMonth(monthAgo.getMonth() - 1): the
\* day of the month is kept and the Date normalised
monthAgo(day) == Ordinal(MonthOf(day) - 1, DayOf(day))

\* WHERE retail_outlet_id = outlet AND shift_date >= since
StatsWhere(r, retailOutletId, since) ==
    r.retailOutletId = retailOutletId /\ r.shiftDate >= since

\* SUM(CAST(column AS DECIMAL)) over the rows selected
StatsSum(retailOutletId, since, column) ==
    LET rows == BagSeq(BagFilter(shiftSales,
                                 LAMBDA r : StatsWhere(r, retailOutletId, since)))
    IN  SqlSum([i \in 1..Len(rows) |-> rows[i][column]])

\* the sum passed on as the query returned it
JsOrZeroMissing(x) == x

\* (x || 0) for the result of a SUM: 0 for NULL
JsOrZero(x) == IF x = NULL THEN Some(0) ELSE x

\* the start of the window the payment breakdown is summed over
BreakdownSince(day) == monthAgo(day)

getShiftSalesStats(retailOutletId) ==
    [weeklySales |-> JsOrZero(StatsSum(retailOutletId, weekAgo(now), "totalSales")),
     monthlySales |-> JsOrZero(StatsSum(retailOutletId, monthAgo(now), "totalSales")),
     paymentMethodBreakdown |->
        [cash |-> JsOrZero(StatsSum(retailOutletId, BreakdownSince(now), "cashSales")),
         credit |-> JsOrZero(StatsSum(retailOutletId, BreakdownSince(now), "creditSales")),
         upi |-> JsOrZero(StatsSum(retailOutletId, BreakdownSince(now), "upiSales")),
         card |-> JsOrZero(StatsSum(retailOutletId, BreakdownSince(now), "cardSales"))]]

\* POST /api/shift-sales
CreateShiftSales(u, body) ==
    /\ BagCardinality(shiftSales) < MaxShiftSales
    /\ LET outlet == getRetailOutletByOwnerId(u)
       IN  IF outlet = NULL
           THEN /\ resp' = [op |-> "createShiftSales", status |-> 404]
                /\ UNCHANGED shiftSales
           ELSE /\ shiftSales' = shiftSales (+) SetToBag({ShiftSalesRow(outlet[1], body)})
                /\ resp' = [op |-> "createShiftSales", status |-> 200]
    /\ UNCHANGED <<staff, sessions, calls, shifts, lastSaved, tanks, stockEntries,
                   nozzleReadings, now>>

\* GET /api/sales-stats; at is the day the request was handled
GetSalesStats(u) ==
    /\ LET outlet == getRetailOutletByOwnerId(u)
       IN  resp' = IF outlet = NULL
                   THEN [op |-> "getSalesStats", status |-> 404, outlet |-> "", at |-> now]
                   ELSE [op |-> "getSalesStats", status |-> 200, outlet |-> outlet[1],
                         at |-> now, body |-> getShiftSalesStats(outlet[1])]
    /\ UNCHANGED <<staff, sessions, calls, shifts, lastSaved, tanks, stockEntries,
                   nozzleReadings, shiftSales, now>>

\* a day passes on the server clock
Tick ==
    /\ now < FirstDay + MaxTicks
    /\ now' = now + 1
    /\ UNCHANGED <<staff, sessions, calls, shifts, lastSaved, tanks, stockEntries,
                   nozzleReadings, shiftSales, resp>>

-----------------------------------------------------------------------------
(* The statistics specification: owners of two outlets record shift sales  *)
(* dated from February 20th to March 30th and read the statistics on      *)
(* March 30th and the days after.                                          *)

StatsDates ==
    {Ordinal(2, 20), Ordinal(3, 1), Ordinal(3, 2), Ordinal(3, 10), Ordinal(3, 24),
     Ordinal(3, 30)}

StatsBody(d, cash, credit, upi, card, total) ==
    [staffId |-> "s1", shiftDate |-> d, shiftType |-> "morning",
     cashSales |-> cash, creditSales |-> credit, upiSales |-> upi,
     cardSales |-> card, totalSales |-> total]

StatsBodies ==
    {StatsBody(d, Some(4), Some(3), Some(2), Some(1), Some(10)) : d \in StatsDates}
    \cup {StatsBody(d, NULL, Some(5), NULL, NULL, Some(99)) : d \in StatsDates}

NextStats ==
    \/ \E u \in Owners, body \in StatsBodies : CreateShiftSales(u, body)
    \/ \E u \in Owners : GetSalesStats(u)
    \/ Tick

SpecStats == Init /\ [][NextStats]_vars

-----------------------------------------------------------------------------
(* Properties of the sales statistics, stated over the stored rows *)

\* the day one calendar month before a day: the same day of the month
\* before, or that month's last day when it has no such day
OneMonthBefore(day) ==
    LET m == MonthOf(day) - 1
        last == IF m = 0 THEN 31 ELSE DaysInMonth[m]
    IN  DaysBefore(m) + Min(DayOf(day), last)

\* the shift-sales rows of outlet o dated d or later
SalesSince(o, d) ==
    BagFilter(shiftSales, LAMBDA r : r.retailOutletId = o /\ r.shiftDate >= d)

\* the sum of column f over a bag of shift-sales rows, a missing amount
\* counted as 0
RECURSIVE ColumnSum(_, _)
ColumnSum(B, f) ==
    IF BagToSet(B) = {} THEN 0
    ELSE LET r == CHOOSE x \in BagToSet(B) : TRUE
         IN  B[r] * (IF r[f] = NULL THEN 0 ELSE r[f][1])
             + ColumnSum([x \in BagToSet(B) \ {r} |-> B[x]], f)

\* the last request was a successful GET /api/sales-stats
StatsReturned == resp.op = "getSalesStats" /\ resp.status = 200

\* C8: weeklySales is the sum of totalSales over the outlet's rows of the
\* last 7 days and monthlySales the sum over its rows of the last calendar
\* month
C8_WindowSums ==
    StatsReturned =>
        /\ resp.body.weeklySales =
              Some(ColumnSum(SalesSince(resp.outlet, resp.at - 7), "totalSales"))
        /\ resp.body.monthlySales =
              Some(ColumnSum(SalesSince(resp.outlet, OneMonthBefore(resp.at)), "totalSales"))

\* C9: each amount of the payment breakdown is the sum of that amount over
\* the outlet's rows of the last calendar month, so that a row older than 7
\* days and newer than one month counts
C9_BreakdownMonthly ==
    StatsReturned =>
        LET rows == SalesSince(resp.outlet, OneMonthBefore(resp.at))
        IN  /\ resp.body.paymentMethodBreakdown.cash = Some(ColumnSum(rows, "cashSales"))
            /\ resp.body.paymentMethodBreakdown.credit = Some(ColumnSum(rows, "creditSales"))
            /\ resp.body.paymentMethodBreakdown.upi = Some(ColumnSum(rows, "upiSales"))
            /\ resp.body.paymentMethodBreakdown.card = Some(ColumnSum(rows, "cardSales"))

\* C10: an outlet without rows in the last 7 days reports weeklySales 0, and
\* one without rows in the last calendar month reports monthlySales 0 and a
\* breakdown of four zeros: numbers, not null, in a successful response
C10_EmptyIsZero ==
    resp.op = "getSalesStats" /\ resp.outlet # "" =>
        /\ resp.status = 200
        /\ BagToSet(SalesSince(resp.outlet, resp.at - 7)) = {}
              => resp.body.weeklySales = Some(0)
        /\ BagToSet(SalesSince(resp.outlet, OneMonthBefore(resp.at))) = {}
              => /\ resp.body.monthlySales = Some(0)
                 /\ resp.body.paymentMethodBreakdown =
                       [cash |-> Some(0), credit |-> Some(0), upi |-> Some(0), card |-> Some(0)]

\* an outlet whose only rows are too old reports zeros while the other
\* outlet has rows in the window
C10_Witness ==
    /\ StatsReturned
    /\ now = resp.at
    /\ BagToSet(SalesSince(resp.outlet, 0)) # {}
    /\ BagToSet(SalesSince(resp.outlet, OneMonthBefore(resp.at))) = {}
    /\ \E r \in BagToSet(shiftSales) : r.retailOutletId # resp.outlet /\ r.shiftDate >= now - 7
    /\ resp.body.weeklySales = Some(0)
    /\ resp.body.monthlySales = Some(0)
    /\ resp.body.paymentMethodBreakdown.cash = Some(0)

-----------------------------------------------------------------------------
(* The shifts table: DatabaseStorage.submitShiftData, saveProductRates and *)
(* getLastProductRates                                                     *)

\* the value of a JS expression used as a condition, for a value that is
\* null/undefined (NULL) or an object or array: [] is truthy
Truthy(x) == x # NULL

\* the positions of the rows of the shifts table that satisfy P
ShiftIdx(P(_)) == {i \in 1..Len(shifts) : P(shifts[i])}

\* the table without row i
ShiftsWithout(i) == [k \in 1..(Len(shifts) - 1) |-> IF k < i THEN shifts[k] ELSE shifts[k + 1]]

\* UPDATE shifts SET ..., updated_at = new Date() WHERE id = row i
ShiftUpdated(i, patch) == Append(ShiftsWithout(i), Merge(shifts[i], patch))

\* WHERE manager_id = m AND shift_type = t AND shift_date = d
SubmitWhere(s, managerId, shiftType, shiftDate) ==
    s.managerId = managerId /\ s.shiftType = shiftType /\ s.shiftDate = Some(shiftDate)

\* the row submitShiftData inserts: product_rates is left to its default []
SubmittedRow(managerId, shiftType, shiftDate) ==
    [managerId |-> managerId, shiftType |-> shiftType, shiftDate |-> Some(shiftDate),
     status |-> "submitted", productRates |-> Some(<<>>), createdAt |-> now,
     id |-> Len(shifts) + 1]

\* DatabaseStorage.submitShiftData: the next value of the shifts table;
\* LIMIT 1 without ORDER BY returns any one of the matching rows
submitShiftData(managerId, shiftType, shiftDate) ==
    LET existingShift == ShiftIdx(LAMBDA s : SubmitWhere(s, managerId, shiftType, shiftDate))
    IN  IF existingShift # {}
        THEN {ShiftUpdated(i, [status |-> "submitted"]) : i \in existingShift}
        ELSE {Append(shifts, SubmittedRow(managerId, shiftType, shiftDate))}

\* whereConditions of saveProductRates: manager and shift type, and
\* DATE(created_at) = targetDate when a targetDate is given
SaveWhere(s, managerId, shiftType, targetDate) ==
    /\ s.managerId = managerId
    /\ s.shiftType = shiftType
    /\ targetDate # NULL => s.createdAt = targetDate[1]

\* the row saveProductRates inserts
RatesRow(managerId, shiftType, rates) ==
    [managerId |-> managerId, shiftType |-> shiftType, shiftDate |-> NULL,
     status |-> "not-started", productRates |-> rates, createdAt |-> now,
     id |-> Len(shifts) + 1]

\* DatabaseStorage.saveProductRates: the next value of the shifts table
saveProductRates(managerId, shiftType, rates, targetDate) ==
    LET existingShift == ShiftIdx(LAMBDA s : SaveWhere(s, managerId, shiftType, targetDate))
    IN  IF existingShift # {}
        THEN {ShiftUpdated(i, [productRates |-> rates]) : i \in existingShift}
        ELSE {Append(shifts, RatesRow(managerId, shiftType, rates))}

\* WHERE manager_id = m AND shift_type = t AND DATE(created_at) = d
SpecificWhere(s, managerId, shiftType, targetDate) ==
    s.managerId = managerId /\ s.shiftType = shiftType /\ s.createdAt = targetDate

\* the second and third tier's WHERE clause without the manager condition
RecentWhereAnyManager(s, managerId, shiftType) ==
    shiftType # NULL => s.shiftType = shiftType[1]

\* WHERE manager_id = m [AND shift_type = t]
RecentWhere(s, managerId, shiftType) ==
    s.managerId = managerId /\ (shiftType # NULL => s.shiftType = shiftType[1])

\* ORDER BY updated_at DESC LIMIT 1 over the rows of the manager, of one
\* shift type or (shiftType = NULL) of any: the row, or NULL
recentShift(managerId, shiftType) ==
    LET idx == ShiftIdx(LAMBDA s : RecentWhere(s, managerId, shiftType))
    IN  IF idx = {} THEN NULL
        ELSE Some(shifts[CHOOSE i \in idx : \A j \in idx : j <= i])

\* x?.productRates for a row x that may be undefined
RatesOf(x) == IF x = NULL THEN NULL ELSE x[1].productRates

\* the tiers after the first
RatesAfterSpecific(managerId, targetShiftType) ==
    LET recentShiftOfType == recentShift(managerId, targetShiftType)
        latestShift == recentShift(managerId, NULL)
    IN  IF targetShiftType # NULL /\ Truthy(RatesOf(recentShiftOfType))
        THEN RatesOf(recentShiftOfType)[1]
        ELSE IF Truthy(RatesOf(latestShift))
        THEN RatesOf(latestShift)[1]
        ELSE <<>>

\* DatabaseStorage.getLastProductRates: the lists the call can return
\* (the first tier's LIMIT 1 without ORDER BY returns any matching row)
getLastProductRates(managerId, targetDate, targetShiftType) ==
    LET specific ==
            IF targetDate # NULL /\ targetShiftType # NULL
            THEN ShiftIdx(LAMBDA s : SpecificWhere(s, managerId, targetShiftType[1],
                                                   targetDate[1]))
            ELSE {}
    IN  IF specific = {}
        THEN {RatesAfterSpecific(managerId, targetShiftType)}
        ELSE {IF Truthy(shifts[i].productRates)
              THEN shifts[i].productRates[1]
              ELSE RatesAfterSpecific(managerId, targetShiftType) : i \in specific}

\* POST /api/manager/submit-shift
SubmitShift(m, shiftType, shiftDate) ==
    /\ shifts' \in submitShiftData(m, shiftType, shiftDate)
    /\ Len(shifts') <= MaxShifts
    /\ resp' = [op |-> "submitShift", status |-> 200, managerId |-> m,
                shiftType |-> shiftType, shiftDate |-> shiftDate]
    /\ UNCHANGED <<staff, sessions, calls, lastSaved, tanks, stockEntries, nozzleReadings,
                   shiftSales, now>>

\* POST /api/shifts/rates
SaveRates(m, shiftType, rates, date) ==
    /\ shifts' \in saveProductRates(m, shiftType, rates, date)
    /\ Len(shifts') <= MaxShifts
    /\ lastSaved' = [lastSaved EXCEPT ![m][shiftType] = Some(rates)]
    /\ resp' = [op |-> "saveRates", status |-> 200]
    /\ UNCHANGED <<staff, sessions, calls, tanks, stockEntries, nozzleReadings, shiftSales, now>>

\* the query of isShiftSubmitted without its condition on shift_date
isShiftSubmittedAnyDate(managerId, shiftType, shiftDate) ==
    \E i \in 1..Len(shifts) :
        /\ shifts[i].managerId = managerId
        /\ shifts[i].shiftType = shiftType
        /\ shifts[i].status = "submitted"

\* DatabaseStorage.isShiftSubmitted: a row of that manager, shift type and
\* shift date with status submitted exists
isShiftSubmitted(managerId, shiftType, shiftDate) ==
    \E i \in 1..Len(shifts) :
        /\ shifts[i].managerId = managerId
        /\ shifts[i].shiftType = shiftType
        /\ shifts[i].shiftDate = Some(shiftDate)
        /\ shifts[i].status = "submitted"

\* GET /api/manager/shift-status/:shiftType/:shiftDate
GetShiftStatus(m, shiftType, shiftDate) ==
    /\ resp' = [op |-> "shiftStatus", status |-> 200, managerId |-> m,
                shiftType |-> shiftType, shiftDate |-> shiftDate,
                isSubmitted |-> isShiftSubmitted(m, shiftType, shiftDate)]
    /\ UNCHANGED <<staff, sessions, calls, shifts, lastSaved, tanks, stockEntries,
                   nozzleReadings, shiftSales, now>>

\* POST /api/shifts/start: startShift fabricates an active shift and stores
\* nothing
StartShift(m, shiftType, productRates) ==
    /\ resp' = [op |-> "startShift", status |-> 200,
                body |-> [id |-> "mock-shift-id", managerId |-> m, shiftType |-> shiftType,
                          status |-> "active", productRates |-> productRates]]
    /\ UNCHANGED <<staff, sessions, calls, shifts, lastSaved, tanks, stockEntries,
                   nozzleReadings, shiftSales, now>>

\* the lookup stamping the manager's latest shift as a side effect
GetLastRatesTouching(m, date, shiftType) ==
    /\ \E rates \in getLastProductRates(m, date, shiftType) :
          resp' = [op |-> "getLastRates", status |-> 200, manager |-> m,
                   date |-> date, shiftType |-> shiftType, body |-> rates]
    /\ LET idx == ShiftIdx(LAMBDA s : s.managerId = m)
       IN  shifts' = IF idx = {} THEN shifts
                     ELSE ShiftUpdated(CHOOSE i \in idx : \A j \in idx : i <= j, <<>>)
    /\ UNCHANGED <<staff, sessions, calls, lastSaved, tanks, stockEntries, nozzleReadings,
                   shiftSales, now>>

\* GET /api/shifts/last-rates
GetLastRates(m, date, shiftType) ==
    /\ \E rates \in getLastProductRates(m, date, shiftType) :
          resp' = [op |-> "getLastRates", status |-> 200, manager |-> m,
                   date |-> date, shiftType |-> shiftType, body |-> rates]
    /\ UNCHANGED <<staff, sessions, calls, shifts, lastSaved, tanks, stockEntries,
                   nozzleReadings, shiftSales, now>>

-----------------------------------------------------------------------------
(* The shifts specification: manager mA saves rates and submits shifts of  *)
(* two shift types over several days, manager mB saves rates, and both     *)
(* ask for their last rates.                                               *)

\* the days that pass while shifts are recorded
MaxShiftDays == 1

\* the dates a request for the last rates names: none, or the second day
ShiftDayQueries == {NULL, Some(FirstDay + 1)}

\* the rates of a request body: null, [], or a list of one rate
RateBodies == {NULL, Some(<<>>), Some(<<70>>)}

NextShifts ==
    \/ \E rates \in RateBodies : SaveRates("mA", "morning", rates, NULL)
    \/ SaveRates("mA", "evening", Some(<<80>>), NULL)
    \/ SaveRates("mA", "morning", Some(<<70>>), Some(FirstDay))
    \/ SaveRates("mB", "morning", Some(<<75>>), NULL)
    \/ \E t \in ShiftTypes : SubmitShift("mA", t, FirstDay)
    \/ \E d \in ShiftDayQueries, t \in {NULL} \cup {Some(x) : x \in ShiftTypes} :
          GetLastRates("mA", d, t)
    \/ GetLastRates("mB", NULL, Some("morning"))
    \/ now < FirstDay + MaxShiftDays /\ Tick

SpecShifts == Init /\ [][NextShifts]_vars

-----------------------------------------------------------------------------
(* Properties of the rate lookup, stated over the stored shifts *)

LastRatesReturned == resp.op = "getLastRates" /\ resp.status = 200

\* the shifts of manager m, of type t[1] unless t is NULL
ShiftsOf(m, t) ==
    {i \in 1..Len(shifts) : shifts[i].managerId = m /\ (t = NULL \/ shifts[i].shiftType = t[1])}

\* the rate list a shift carries; a shift without rates carries none
RateList(i) == IF shifts[i].productRates = NULL THEN <<>> ELSE shifts[i].productRates[1]

\* the rate list of the most recently updated shift among idx, or none
MostRecentRates(idx) ==
    IF idx = {} THEN <<>> ELSE RateList(CHOOSE i \in idx : \A j \in idx : j <= i)

\* the first non-empty list of three
FirstNonEmpty(a, b, c) == IF a # <<>> THEN a ELSE IF b # <<>> THEN b ELSE c

\* the results of the three tiers, in order; the first tier may match several shifts
TierResults(m, d, t) ==
    LET created == IF d = NULL \/ t = NULL THEN {}
                   ELSE {i \in ShiftsOf(m, t) : shifts[i].createdAt = d[1]}
        second == IF t = NULL THEN <<>> ELSE MostRecentRates(ShiftsOf(m, t))
        third == MostRecentRates(ShiftsOf(m, NULL))
    IN  IF created = {} THEN {FirstNonEmpty(<<>>, second, third)}
        ELSE {FirstNonEmpty(RateList(i), second, third) : i \in created}

\* C11: getLastProductRates returns the rates of the first of the three tiers
\* (shift of the type created on the date; most recently updated shift of the
\* type; most recently updated shift of any type) whose result is a non-empty
\* list: a tier whose shift carries an empty list is skipped
C11_FirstNonEmptyTier ==
    LastRatesReturned => resp.body \in TierResults(resp.manager, resp.date, resp.shiftType)

\* the request named a date and a shift type, and the manager has no shift of
\* that type created on that date
NoSpecificShift ==
    /\ resp.date # NULL
    /\ resp.shiftType # NULL
    /\ \A i \in ShiftsOf(resp.manager, resp.shiftType) : shifts[i].createdAt # resp.date[1]

\* the manager's shifts of the requested type that hold rates
RateHolders == {i \in ShiftsOf(resp.manager, resp.shiftType) : RateList(i) # <<>>}

\* C12: when the manager has no shift matching (targetDate, targetShiftType)
\* but has a shift of the same type that holds rates, getLastProductRates
\* returns the rates of such a shift and not an empty list, whatever other
\* shift rows the manager has
C12_OlderShiftOfType ==
    (LastRatesReturned /\ NoSpecificShift /\ RateHolders # {})
        => resp.body \in {RateList(i) : i \in RateHolders}

\* the non-empty rate list the manager last saved for the requested shift
\* type, if the last save for that type carried one
SavedRates == lastSaved[resp.manager][resp.shiftType[1]]

\* C13: when the rates manager m last saved for shift type t are a non-empty
\* list R, getLastProductRates(m, d, t) returns R for any date d, whatever
\* submitShiftData calls or saves for other shift types came in between
C13_LastSavedReturned ==
    (/\ LastRatesReturned
     /\ resp.shiftType # NULL
     /\ SavedRates # NULL
     /\ SavedRates[1] # NULL
     /\ SavedRates[1][1] # <<>>)
        => resp.body = SavedRates[1][1]

\* C14: getLastProductRates returns an empty list in a successful response
\* when the manager has no shift record at all
C14_NoShiftIsEmpty ==
    (resp.op = "getLastRates" /\ ShiftsOf(resp.manager, NULL) = {})
        => (resp.status = 200 /\ resp.body = <<>>)

\* a manager without shifts asked for rates while another manager's shift
\* holds rates
C14_Witness ==
    /\ LastRatesReturned
    /\ ShiftsOf(resp.manager, NULL) = {}
    /\ \E i \in 1..Len(shifts) : RateList(i) # <<>>

-----------------------------------------------------------------------------
(* The read specification: every table of outlet A is written through its  *)
(* route, and the four read operations are called in between.              *)

ReadsStockBody == StockBody("t1", FirstDay, 5, 3)

ReadsReadingBody ==
    SalesBody("s1", FirstDay, "morning",
              [totalSale |-> 10, cashSales |-> Some(4), creditSales |-> Some(3),
               upiSales |-> Some(2), cardSales |-> Some(1)])

ReadsSalesBody == StatsBody(FirstDay, Some(1), Some(1), Some(1), Some(1), Some(4))

NextReads ==
    \/ CreateStockEntry("mA", ReadsStockBody)
    \/ CreateNozzleReading("mA", ReadsReadingBody)
    \/ CreateShiftSales("uA", ReadsSalesBody)
    \/ SaveRates("mA", "morning", Some(<<70>>), NULL)
    \/ \E t \in ShiftTypes : SubmitShift("mA", t, FirstDay)
    \/ DeleteTank("t2")
    \/ GetTanks("uA")
    \/ \E query \in {NULL, Some(1)} : GetShiftSales("uA", query)
    \/ GetSalesStats("uA")
    \/ \E t \in {NULL, Some("morning")} : GetLastRates("mA", NULL, t)

SpecReads == Init /\ [][NextReads]_vars

\* the responses of the four read operations
ReadOps == {"getTanks", "getShiftSales", "getSalesStats", "getLastRates"}

\* the stored tables
Tables == <<tanks, stockEntries, nozzleReadings, shiftSales, shifts>>

\* C15: getTanksByRetailOutletId, getShiftSalesByRetailOutletId,
\* getShiftSalesStats and getLastProductRates leave every stored table as it
\* was: a step that ends in the response of a read operation changes no table
C15_ReadsChangeNothing == [][resp'.op \in ReadOps => UNCHANGED Tables]_vars

\* a read operation has answered while every table holds rows
C15_Witness ==
    /\ resp.op \in ReadOps
    /\ resp.status = 200
    /\ stockEntries # <<>>
    /\ nozzleReadings # EmptyBag
    /\ shiftSales # EmptyBag
    /\ Len(shifts) >= 2
    /\ \E t \in TankIds : ~tanks[t].isActive

-----------------------------------------------------------------------------
(* The evaluation-date specification: a manager of outlet A enters stock   *)
(* entries and readings dated on the first two days, the days pass, and    *)
(* the owner reads the current stock on each of them.                      *)

TodayStockBodies == {StockBody("t1", FirstDay + 1, 5, 3), StockBody("t1", FirstDay, 2, 0)}

TodayReadingBodies ==
    {VolumeBody("n1", d, 0, 4, NULL) : d \in {FirstDay, FirstDay + 1}}
    \cup {VolumeBody("n2", d, 3, 1, Some(0)) : d \in {FirstDay, FirstDay + 1}}

NextToday ==
    \/ \E body \in TodayStockBodies : CreateStockEntry("mA", body)
    \/ \E body \in TodayReadingBodies : CreateNozzleReading("mA", body)
    \/ GetTanks("uA")
    \/ Tick

SpecToday == Init /\ [][NextToday]_vars

-----------------------------------------------------------------------------
(* The tenant specification: outlet A holds a stock entry and readings for *)
(* its tank t1; from then on only the manager of outlet B writes, naming   *)
(* tanks, nozzles and rows of either outlet, and both owners read.         *)

TenantReadings ==
    {SalesBody("s1", FirstDay, "morning", pay) : pay \in Payments}
    \cup {VolumeBody("n1", FirstDay, 0, 4, NULL)}

InitTenant ==
    /\ tanks = [t \in TankIds |-> [retailOutletId |-> TankOutlet[t], isActive |-> TRUE]]
    /\ stockEntries = <<StockRow("mA", StockBody("t1", FirstDay, 5, 3))>>
    /\ nozzleReadings \in {SetToBag({ReadingRow("mA", b) : b \in bs}) :
                              bs \in SUBSET TenantReadings}
    /\ shiftSales = EmptyBag
    /\ shifts = <<>>
    /\ staff = StaffTable
    /\ sessions = NoSessions
    /\ calls = {}
    /\ lastSaved = NoneSaved
    /\ now = FirstDay
    /\ resp = NoResp

TenantStockBodies == {StockBody("t1", FirstDay + 1, 2, 0), StockBody("t3", FirstDay, 5, 3)}

TenantStockPatches == {[openingStock |-> 1], [shiftDate |-> FirstDay + 1]}

TenantReadingBodies ==
    {VolumeBody("n1", FirstDay, 0, 4, NULL), VolumeBody("n3", FirstDay, 0, 4, NULL),
     [VolumeBody("n3", FirstDay, 0, 4, NULL) EXCEPT !.attendantId = "s3", !.totalSale = 7]}

TenantReadingPatches == {[totalSale |-> 7], [currentReading |-> 9]}

NextTenant ==
    \/ \E body \in TenantStockBodies : CreateStockEntry("mB", body)
    \/ \E id \in 1..(MaxStockEntries + 1), patch \in TenantStockPatches :
          UpdateStockEntry(id, patch)
    \/ \E body \in TenantReadingBodies : CreateNozzleReading("mB", body)
    \/ \E row \in BagToSet(nozzleReadings), patch \in TenantReadingPatches :
          UpdateNozzleReading("mB", row, patch)
    \/ \E u \in {"uA", "uB"} : GetTanks(u)
    \/ \E u \in {"uA", "uB"} : GetShiftSales(u, NULL)

SpecTenant == InitTenant /\ [][NextTenant]_vars

\* C17: no stock entry or nozzle reading the manager of outlet B creates or
\* updates changes the current stock of the tanks of outlet A or the
\* shift-sales summaries of outlet A
C17_TenantIsolation ==
    [][/\ getTanksByRetailOutletId("A")' = getTanksByRetailOutletId("A")
       /\ getShiftSalesByRetailOutletId("A", DefaultLimit)'
             = getShiftSalesByRetailOutletId("A", DefaultLimit)]_vars

-----------------------------------------------------------------------------
(* Properties of the evaluation date, checked under SpecToday *)

\* the entry of tank t with the greatest shiftDate on or before day d, the
\* latest created among those of that date; NULL when there is none
MostRecentEntryUpTo(t, d) ==
    LET upTo == {i \in EntriesOf(t) : stockEntries[i].shiftDate <= d}
    IN  IF upTo = {} THEN NULL
        ELSE Some(stockEntries[CHOOSE i \in upTo : \A j \in upTo :
                      \/ stockEntries[j].shiftDate < stockEntries[i].shiftDate
                      \/ /\ stockEntries[j].shiftDate = stockEntries[i].shiftDate
                         /\ j <= i])

\* C18: the stock entry used for a tank's current stock is the most recent
\* one dated on or before the evaluation date; an entry dated after that day
\* is never the one selected
C18_NoFutureEntry ==
    TanksReturned =>
        \A k \in 1..Len(resp.body) :
            LET t == resp.body[k].id
                e == MostRecentEntryUpTo(t, resp.at)
            IN  resp.body[k].currentStock =
                    IF e = NULL THEN Max(0, 0 - DispensedSince(t, resp.at))
                    ELSE Max(0, e[1].openingStock + e[1].receipt
                                - DispensedSince(t, e[1].shiftDate))

\* C19: a tank with no stock entry has opening stock and receipt 0 and only
\* its readings dated on or after the evaluation date are summed
C19_NoEntryCutoffToday ==
    TanksReturned =>
        \A k \in 1..Len(resp.body) :
            LET t == resp.body[k].id
            IN  EntriesOf(t) = {} =>
                    resp.body[k].currentStock = Max(0, 0 + 0 - DispensedSince(t, resp.at))

\* a tank without entries with a reading dated before the evaluation date
\* that is left out and a reading dated on it that is counted
C19_Witness ==
    /\ TanksReturned
    /\ \E k \in 1..Len(resp.body) :
          LET t == resp.body[k].id
          IN  /\ EntriesOf(t) = {}
              /\ \E r \in BagToSet(ReadingsOfTank(t)) : r.shiftDate < resp.at /\ Volume(r) # 0
              /\ \E r \in BagToSet(ReadingsOfTank(t)) : r.shiftDate >= resp.at
              /\ resp.body[k].currentStock > 0

-----------------------------------------------------------------------------
(* The statistics against the nozzle readings, checked under SpecReads *)

\* the nozzle readings of outlet o dated d or later
ReadingsSince(o, d) ==
    BagFilter(OutletReadings(o), LAMBDA r : r.shiftDate >= d)

\* C20: monthlySales is the sum of totalSales over the shift groups derived
\* from the outlet's nozzle readings dated in the trailing month, that is the
\* sum of totalSale over those readings
C20_StatsFromReadings ==
    StatsReturned =>
        resp.body.monthlySales =
            Some(TotalSaleSum(ReadingsSince(resp.outlet, OneMonthBefore(resp.at))))

-----------------------------------------------------------------------------
(* The submission specification: managers save rates, start and submit     *)
(* shifts of two days and ask for the status of a shift                    *)

ShiftStatusDates == {FirstDay, FirstDay + 1}

NextSubmitted ==
    \/ \E t \in ShiftTypes : SaveRates("mA", t, Some(<<70>>), NULL)
    \/ \E m \in Managers, d \in ShiftStatusDates : SubmitShift(m, "morning", d)
    \/ SubmitShift("mA", "evening", FirstDay)
    \/ StartShift("mA", "morning", <<70>>)
    \/ \E t \in ShiftTypes, d \in ShiftStatusDates : GetShiftStatus("mA", t, d)

SpecSubmitted == Init /\ [][NextSubmitted]_vars

-----------------------------------------------------------------------------
(* Properties of the shift status, checked under SpecSubmitted *)

\* the position of a status in not-started -> active -> completed -> submitted
StatusRank(status) ==
    CASE status = "not-started" -> 0
      [] status = "active" -> 1
      [] status = "completed" -> 2
      [] status = "submitted" -> 3

\* C21: a shift's status changes only one step at a time along
\* not-started -> active -> completed -> submitted: in every step a row that
\* stays in the table keeps its status or moves to the next one, and a new
\* row starts as not-started
C21_StatusStateMachine ==
    [][\A j \in 1..Len(shifts') :
          LET before == {i \in 1..Len(shifts) : shifts[i].id = shifts'[j].id}
          IN  IF before = {}
              THEN StatusRank(shifts'[j].status) = 0
              ELSE \A i \in before :
                      StatusRank(shifts'[j].status) - StatusRank(shifts[i].status) \in {0, 1}]_vars

-----------------------------------------------------------------------------
(* Requests in flight: submitShiftData and saveProductRates await their    *)
(* lookup before they write, and other requests run in between             *)

MaxCalls == 2

CallIds == 1..MaxCalls

\* the position of the row with the given id
ShiftAt(id) == CHOOSE i \in 1..Len(shifts) : shifts[i].id = id

\* submitShiftData up to its first await: the SELECT ... LIMIT 1; the
\* call remembers the row it found, if any
SubmitLookup(c, m, shiftType, shiftDate) ==
    /\ \A k \in calls : k.call # c
    /\ \E existingShift \in
            IF ShiftIdx(LAMBDA s : SubmitWhere(s, m, shiftType, shiftDate)) = {}
            THEN {NULL}
            ELSE {Some(shifts[i].id) :
                    i \in ShiftIdx(LAMBDA s : SubmitWhere(s, m, shiftType, shiftDate))} :
          calls' = calls \cup {[call |-> c, op |-> "submitShift", managerId |-> m,
                                shiftType |-> shiftType, shiftDate |-> Some(shiftDate),
                                existingShift |-> existingShift]}
    /\ UNCHANGED <<staff, sessions, shifts, lastSaved, tanks, stockEntries, nozzleReadings,
                   shiftSales, now, resp>>

\* the rest of submitShiftData: UPDATE ... WHERE id = existingShift[0].id,
\* or the INSERT, and the route's answer
SubmitWrite(c) ==
    \E k \in calls :
        /\ k.call = c
        /\ k.op = "submitShift"
        /\ shifts' = IF k.existingShift # NULL
                      THEN ShiftUpdated(ShiftAt(k.existingShift[1]), [status |-> "submitted"])
                      ELSE Append(shifts, SubmittedRow(k.managerId, k.shiftType, k.shiftDate[1]))
        /\ Len(shifts') <= MaxShifts
        /\ calls' = calls \ {k}
        /\ resp' = [op |-> "submitShift", status |-> 200, managerId |-> k.managerId,
                    shiftType |-> k.shiftType, shiftDate |-> k.shiftDate[1]]
        /\ UNCHANGED <<staff, sessions, lastSaved, tanks, stockEntries, nozzleReadings,
                       shiftSales, now>>

\* saveProductRates up to the await of its SELECT ... LIMIT 1
SaveLookup(c, m, shiftType, rates, date) ==
    /\ \A k \in calls : k.call # c
    /\ \E existingShift \in
            IF ShiftIdx(LAMBDA s : SaveWhere(s, m, shiftType, date)) = {}
            THEN {NULL}
            ELSE {Some(shifts[i].id) : i \in ShiftIdx(LAMBDA s : SaveWhere(s, m, shiftType, date))} :
          calls' = calls \cup {[call |-> c, op |-> "saveRates", managerId |-> m,
                                shiftType |-> shiftType, rates |-> rates,
                                existingShift |-> existingShift]}
    /\ UNCHANGED <<staff, sessions, shifts, lastSaved, tanks, stockEntries, nozzleReadings,
                   shiftSales, now, resp>>

\* the rest of saveProductRates: the UPDATE of the row found, or the INSERT
SaveWrite(c) ==
    \E k \in calls :
        /\ k.call = c
        /\ k.op = "saveRates"
        /\ shifts' = IF k.existingShift # NULL
                      THEN ShiftUpdated(ShiftAt(k.existingShift[1]), [productRates |-> k.rates])
                      ELSE Append(shifts, RatesRow(k.managerId, k.shiftType, k.rates))
        /\ Len(shifts') <= MaxShifts
        /\ calls' = calls \ {k}
        /\ lastSaved' = [lastSaved EXCEPT ![k.managerId][k.shiftType] = Some(k.rates)]
        /\ resp' = [op |-> "saveRates", status |-> 200]
        /\ UNCHANGED <<staff, sessions, tanks, stockEntries, nozzleReadings, shiftSales, now>>

NextConcurrentShifts ==
    \/ \E c \in CallIds, m \in Managers, t \in ShiftTypes : SubmitLookup(c, m, t, FirstDay)
    \/ \E c \in CallIds : SubmitWrite(c)
    \/ \E c \in CallIds, t \in ShiftTypes : SaveLookup(c, "mA", t, Some(<<70>>), NULL)
    \/ \E c \in CallIds : SaveLookup(c, "mA", "morning", Some(<<70>>), Some(FirstDay + 1))
    \/ \E c \in CallIds : SaveWrite(c)
    \/ Tick

SpecConcurrentShifts == Init /\ [][NextConcurrentShifts]_vars

\* C22: the shifts table never holds two rows for the same manager, shift
\* type and shift date, whatever the interleaving of saveProductRates and
\* submitShiftData calls (rows without a shift date are not counted)
C22_OneRowPerShift ==
    \A i, j \in 1..Len(shifts) :
        /\ shifts[i].shiftDate # NULL
        /\ shifts[i].managerId = shifts[j].managerId
        /\ shifts[i].shiftType = shifts[j].shiftType
        /\ shifts[i].shiftDate = shifts[j].shiftDate
        => i = j

-----------------------------------------------------------------------------
(* Uniqueness of stock entries, checked under SpecStock *)

\* C23: after any sequence of createStockEntry and updateStockEntry calls
\* the stock_entries table holds at most one entry per tank, shift type and
\* shift date
C23_OneEntryPerTankShift ==
    \A i, j \in 1..Len(stockEntries) :
        /\ stockEntries[i].tankId = stockEntries[j].tankId
        /\ stockEntries[i].shiftType = stockEntries[j].shiftType
        /\ stockEntries[i].shiftDate = stockEntries[j].shiftDate
        => i = j

-----------------------------------------------------------------------------
(* The current-stock computation of one tank in flight: the closure that   *)
(* getTanksByRetailOutletId runs per tank awaits the latest-entry query,   *)
(* then the dispensed-sum query, and writes of other requests land in      *)
(* between                                                                 *)

\* the closure starts for a tank the tanks query returned; today was taken
\* at the start of the call
CurrentStockBegin(c, t) ==
    /\ \A k \in calls : k.call # c
    /\ TankSelected(t, tanks[t].retailOutletId)
    /\ calls' = calls \cup {[call |-> c, op |-> "currentStock", tankId |-> t, today |-> now,
                              pc |-> "latestStockEntry", latestStockEntry |-> NULL,
                              seen |-> {currentStock(t)}, overlapped |-> FALSE]}
    /\ UNCHANGED <<staff, sessions, shifts, lastSaved, tanks, stockEntries, nozzleReadings,
                   shiftSales, now, resp>>

\* await of the latest-entry query
StockEntryLookup(c) ==
    \E k \in calls :
        /\ k.call = c
        /\ k.op = "currentStock"
        /\ k.pc = "latestStockEntry"
        /\ calls' = (calls \ {k}) \cup
                        {[k EXCEPT !.pc = "totalDispensed",
                                   !.latestStockEntry = latestStockEntry(k.tankId)]}
        /\ UNCHANGED <<staff, sessions, shifts, lastSaved, tanks, stockEntries, nozzleReadings,
                       shiftSales, now, resp>>

\* await of the dispensed-sum query, bounded by the date of the entry found
\* before, and the result of the closure
DispensedSum(c) ==
    \E k \in calls :
        /\ k.call = c
        /\ k.op = "currentStock"
        /\ k.pc = "totalDispensed"
        /\ LET entry == k.latestStockEntry
               stockEntryDate_ == IF entry = NULL THEN k.today ELSE entry[1].shiftDate
               openingStock == IF entry = NULL THEN 0 ELSE entry[1].openingStock
               receipts == IF entry = NULL THEN 0 ELSE entry[1].receipt
               dispensed == totalDispensed(k.tankId, stockEntryDate_)
           IN  resp' = [op |-> "currentStock", status |-> 200, tankId |-> k.tankId,
                        currentStock |-> ClampStock(openingStock + receipts - dispensed),
                        seen |-> k.seen, overlapped |-> k.overlapped]
        /\ calls' = calls \ {k}
        /\ UNCHANGED <<staff, sessions, shifts, lastSaved, tanks, stockEntries, nozzleReadings,
                       shiftSales, now>>

-----------------------------------------------------------------------------
(* The frame specification: tank t1 holds its facts from the start, and    *)
(* while its current stock is computed a manager creates and updates stock *)
(* entries and readings of tank t2 only                                    *)

InitFrame ==
    /\ tanks = [t \in TankIds |-> [retailOutletId |-> TankOutlet[t], isActive |-> TRUE]]
    /\ stockEntries \in {<<>>, <<StockRow("mA", StockBody("t1", FirstDay, 5, 3))>>}
    /\ nozzleReadings \in {EmptyBag,
                            SetToBag({ReadingRow("mA", VolumeBody("n1", FirstDay, 0, 2, NULL))})}
    /\ shiftSales = EmptyBag
    /\ shifts = <<>>
    /\ staff = StaffTable
    /\ sessions = NoSessions
    /\ calls = {}
    /\ lastSaved = NoneSaved
    /\ now = FirstDay
    /\ resp = NoResp

FrameStockBodies == {StockBody("t2", FirstDay + 1, 2, 0)}

FrameStockPatches == {[openingStock |-> 1]}

FrameReadingBodies == {VolumeBody("n2", FirstDay, 0, 4, NULL)}

FrameReadingPatches == {[shiftDate |-> FirstDay + 1]}

NextFrame ==
    \/ \E body \in FrameStockBodies : CreateStockEntry("mA", body)
    \/ \E id \in 1..Len(stockEntries), patch \in FrameStockPatches :
          stockEntries[id].tankId # "t1" /\ UpdateStockEntry(id, patch)
    \/ \E body \in FrameReadingBodies : CreateNozzleReading("mA", body)
    \/ \E row \in BagToSet(nozzleReadings), patch \in FrameReadingPatches :
          NozzleTank[row.nozzleId] # "t1" /\ UpdateNozzleReading("mA", row, patch)
    \/ CurrentStockBegin(1, "t1")
    \/ StockEntryLookup(1)
    \/ DispensedSum(1)

SpecFrame == InitFrame /\ [][NextFrame]_vars

\* the current stock of tank t from its own stock entries and the readings
\* of its own nozzles
OwnStock(t) ==
    IF EntriesOf(t) = {}
    THEN Max(0, 0 - DispensedSince(t, now))
    ELSE Max(0, SelectedEntry(t).openingStock + SelectedEntry(t).receipt
                   - DispensedSince(t, SelectedEntry(t).shiftDate))

\* the last response is the result of a current-stock computation
StockComputed == resp.op = "currentStock"

\* C24: the current stock computed for tank t1 is the one its own stock
\* entries and the readings of its own nozzles give, whatever entries and
\* readings of another tank were created or updated before or while it was
\* computed, and no such write changed the current stock of t1
C24_OtherTanksDoNotMatter ==
    StockComputed /\ resp.tankId = "t1" =>
        /\ resp.currentStock = OwnStock("t1")
        /\ resp.seen = {OwnStock("t1")}

\* the stock of t1 was computed from its entry and reading while a write
\* for t2 landed, and t2 holds a later entry and a reading
C24_Witness ==
    /\ StockComputed
    /\ resp.tankId = "t1"
    /\ resp.overlapped
    /\ EntriesOf("t1") # {}
    /\ BagToSet(ReadingsOfTank("t1")) # {}
    /\ \E i \in EntriesOf("t2") : stockEntries[i].shiftDate > FirstDay
    /\ BagToSet(ReadingsOfTank("t2")) # {}
    /\ resp.currentStock = 6

-----------------------------------------------------------------------------
(* The concurrent stock specification: stock entries and readings of tank  *)
(* t1 are created while its current stock is computed                      *)

ConcurrentStockBodies == {StockBody("t1", FirstDay, 5, 3), StockBody("t1", FirstDay + 1, 2, 0)}

ConcurrentReadingBodies == {VolumeBody("n1", FirstDay, 0, 4, NULL)}

NextConcurrentStock ==
    \/ \E body \in ConcurrentStockBodies : CreateStockEntry("mA", body)
    \/ \E body \in ConcurrentReadingBodies : CreateNozzleReading("mA", body)
    \/ \E c \in CallIds : CurrentStockBegin(c, "t1")
    \/ \E c \in CallIds : StockEntryLookup(c)
    \/ \E c \in CallIds : DispensedSum(c)

SpecConcurrentStock == Init /\ [][NextConcurrentStock]_vars

\* C25: the value a current-stock computation returns is the current stock
\* of one of the database states that existed between its start and its
\* end, whatever stock entries and readings were created meanwhile
C25_StockOfSomeState ==
    StockComputed => resp.currentStock \in resp.seen

-----------------------------------------------------------------------------
(* The submitted flag of a shift, checked under SpecSubmitted *)

\* the step completes a submitShiftData call of manager m for shift type t
\* and shift date d
SubmitCompleted(m, t, d) ==
    /\ resp' = [op |-> "submitShift", status |-> 200, managerId |-> m,
                shiftType |-> t, shiftDate |-> d]
    /\ resp' # resp \/ shifts' # shifts

\* C26: isShiftSubmitted(m, t, d) is true exactly when a submitShiftData
\* call for that manager, shift type and shift date has completed: it is
\* true after a step iff it was true before or the step completes such a
\* call, so no later saveProductRates, submitShiftData or startShift makes
\* it false again; and the shift-status route answers with that value
C26_SubmittedIffSubmitCompleted ==
    [][\A m \in Managers, t \in ShiftTypes, d \in ShiftStatusDates :
          /\ isShiftSubmitted(m, t, d)' = (isShiftSubmitted(m, t, d) \/ SubmitCompleted(m, t, d))
          /\ (/\ resp'.op = "shiftStatus"
              /\ resp'.managerId = m
              /\ resp'.shiftType = t
              /\ resp'.shiftDate = d) => resp'.isSubmitted = isShiftSubmitted(m, t, d)']_vars

\* a morning shift is reported submitted with rates saved into its row,
\* while the manager's evening shift has a row that is not submitted and
\* the morning shift of the other day is not submitted
C26_Witness ==
    /\ resp.op = "shiftStatus"
    /\ resp.isSubmitted
    /\ \E i \in 1..Len(shifts) :
          /\ shifts[i].managerId = "mA"
          /\ shifts[i].shiftType = "morning"
          /\ shifts[i].shiftDate = Some(resp.shiftDate)
          /\ shifts[i].productRates = Some(<<70>>)
    /\ \E i \in 1..Len(shifts) : shifts[i].shiftType = "evening" /\ shifts[i].status # "submitted"
    /\ \E d \in ShiftStatusDates : ~isShiftSubmitted("mA", "morning", d)

-----------------------------------------------------------------------------
(* The stored total of a shift-sales record, checked under SpecStats *)

\* an amount of a stored record, a missing amount counted as 0
AmountOrZero(x) == IF x = NULL THEN 0 ELSE x[1]

\* C28: every stored shift-sales record has totalSales equal to the sum of
\* its cash, credit, upi and card amounts, a missing amount counted as 0,
\* whatever totalSales the request carried
C28_TotalIsSumOfAmounts ==
    \A r \in BagToSet(shiftSales) :
        r.totalSales = Some(AmountOrZero(r.cashSales) + AmountOrZero(r.creditSales)
                            + AmountOrZero(r.upiSales) + AmountOrZero(r.cardSales))

\* a record is stored whose request carried the total 99 and only a credit
\* amount of 5
C28_Witness ==
    /\ resp.op = "createShiftSales"
    /\ resp.status = 200
    /\ \E r \in BagToSet(shiftSales) :
          /\ r.cashSales = NULL
          /\ r.creditSales = Some(5)
          /\ r.totalSales = Some(5)
    /\ \E b \in StatsBodies : b.cashSales = NULL /\ b.totalSales = Some(99)

-----------------------------------------------------------------------------
(* The bound specification: a manager enters stock entries of tank t1, one *)
(* of them with a negative opening stock, and readings of tanks t1 and t2, *)
(* some of them running backwards; tank t2 never gets a stock entry        *)

BoundStockBodies == {StockBody("t1", FirstDay, 5, 3), StockBody("t1", FirstDay + 1, 0 - 4, 1)}

BoundReadingBodies ==
    {VolumeBody("n1", FirstDay, 0, 4, NULL), VolumeBody("n1", FirstDay + 1, 3, 1, Some(0)),
     VolumeBody("n2", FirstDay, 0, 4, NULL), VolumeBody("n2", FirstDay, 3, 1, Some(0))}

NextBound ==
    \/ \E body \in BoundStockBodies : CreateStockEntry("mA", body)
    \/ \E body \in BoundReadingBodies : CreateNozzleReading("mA", body)
    \/ GetTanks("uA")

SpecBound == Init /\ [][NextBound]_vars

\* the readings deducted for tank t: those of its nozzles dated on or after
\* its selected entry, or on or after the day of the request without one
Deducted(t) ==
    LET cutoff == IF EntriesOf(t) = {} THEN resp.at ELSE SelectedEntry(t).shiftDate
    IN  BagFilter(ReadingsOfTank(t), LAMBDA r : r.shiftDate >= cutoff)

\* no deducted reading of tank t runs backwards
NothingNegative(t) == \A r \in BagToSet(Deducted(t)) : Volume(r) >= 0

\* the claim as stated: the reported stock never exceeds openingStock +
\* receipt of the selected entry
C27_AtMostOpeningPlusReceipt ==
    TanksReturned =>
        \A k \in 1..Len(resp.body) :
            LET t == resp.body[k].id
            IN  NothingNegative(t) =>
                    IF EntriesOf(t) = {}
                    THEN resp.body[k].currentStock = 0
                    ELSE resp.body[k].currentStock <=
                            SelectedEntry(t).openingStock + SelectedEntry(t).receipt

\* C27: when no deducted reading has a negative volume, the reported stock
\* of a tank never exceeds openingStock + receipt of the selected entry or
\* 0, whichever is greater, and is 0 for a tank without stock entry
C27_AtMostOpeningPlusReceiptOrZero ==
    TanksReturned =>
        \A k \in 1..Len(resp.body) :
            LET t == resp.body[k].id
            IN  NothingNegative(t) =>
                    IF EntriesOf(t) = {}
                    THEN resp.body[k].currentStock = 0
                    ELSE resp.body[k].currentStock <=
                            Max(0, SelectedEntry(t).openingStock + SelectedEntry(t).receipt)

\* tank t1 is reported below its entry's 8 litres after a deduction, and
\* tank t2, without entry, is reported empty after a reading of today
C27_Witness ==
    /\ TanksReturned
    /\ \E k \in 1..Len(resp.body) :
          /\ resp.body[k].id = "t1"
          /\ EntriesOf("t1") # {}
          /\ BagToSet(Deducted("t1")) # {}
          /\ NothingNegative("t1")
          /\ resp.body[k].currentStock = 4
    /\ \E k \in 1..Len(resp.body) :
          /\ resp.body[k].id = "t2"
          /\ EntriesOf("t2") = {}
          /\ BagToSet(Deducted("t2")) # {}
          /\ NothingNegative("t2")
          /\ resp.body[k].currentStock = 0

-----------------------------------------------------------------------------
(* Staff and manager sessions: DELETE /api/staff/:id, manager login and    *)
(* logout, and the session guard of the manager routes                     *)

\* DatabaseStorage.getStaffById: the row, or NULL
getStaffById(id) == IF id \in DOMAIN staff THEN Some(staff[id]) ELSE NULL

\* the ownership check of DELETE /api/staff/:id left out
StaffForbiddenNever(staffMember, outlet) == FALSE

\* staffMember.retailOutletId !== outlet.id
StaffForbidden(staffMember, outlet) == staffMember.retailOutletId # outlet

\* DatabaseStorage.deleteStaff: the next value of the staff table
deleteStaff(id) == [staff EXCEPT ![id].isActive = FALSE]

\* DELETE /api/staff/:id of owner u
DeleteStaff(u, id) ==
    /\ LET outlet == getRetailOutletByOwnerId(u)
           staffMember == getStaffById(id)
           status == IF outlet = NULL THEN 404
                     ELSE IF staffMember = NULL THEN 404
                     ELSE IF StaffForbidden(staffMember[1], outlet[1]) THEN 403
                     ELSE 200
       IN  /\ staff' = IF status = 200 THEN deleteStaff(id) ELSE staff
           /\ resp' = [op |-> "deleteStaff", status |-> status, user |-> u, id |-> id]
    /\ UNCHANGED <<sessions, calls, shifts, lastSaved, tanks, stockEntries, nozzleReadings,
                   shiftSales, now>>

\* the WHERE clause of getManagerByCredentials without is_active = true
ManagerWhereAnyActive(id, phoneNumber, password) ==
    /\ staff[id].phoneNumber = Some(phoneNumber)
    /\ staff[id].password = Some(password)
    /\ staff[id].role = "manager"

\* WHERE phone_number = p AND password = w AND role = 'manager' AND
\* is_active = true
ManagerWhere(id, phoneNumber, password) ==
    /\ staff[id].phoneNumber = Some(phoneNumber)
    /\ staff[id].password = Some(password)
    /\ staff[id].role = "manager"
    /\ staff[id].isActive

\* DatabaseStorage.getManagerByCredentials: the ids the destructured first
\* row can have, or NULL when no row matches
getManagerByCredentials(phoneNumber, password) ==
    LET rows == {id \in DOMAIN staff : ManagerWhere(id, phoneNumber, password)}
    IN  IF rows = {} THEN {NULL} ELSE {Some(id) : id \in rows}

\* history: the credentials are those of an active staff member whose role
\* is manager
CredentialsMatch(phoneNumber, password) ==
    \E id \in DOMAIN staff :
        /\ staff[id].isActive
        /\ staff[id].role = "manager"
        /\ staff[id].phoneNumber = Some(phoneNumber)
        /\ staff[id].password = Some(password)

\* POST /api/manager/login in session s; a missing phone number or password
\* is NULL
ManagerLogin(s, phoneNumber, password) ==
    /\ IF phoneNumber = NULL \/ password = NULL
       THEN /\ resp' = [op |-> "managerLogin", status |-> 400]
            /\ UNCHANGED sessions
       ELSE \E manager \in getManagerByCredentials(phoneNumber[1], password[1]) :
              IF manager = NULL
              THEN /\ resp' = [op |-> "managerLogin", status |-> 401]
                   /\ UNCHANGED sessions
              ELSE /\ sessions' =
                        [sessions EXCEPT ![s] =
                            [managerId |-> manager, userType |-> Some("manager"),
                             history |-> @.history
                                           \/ CredentialsMatch(phoneNumber[1], password[1])]]
                   /\ resp' = [op |-> "managerLogin", status |-> 200]
    /\ UNCHANGED <<staff, calls, shifts, lastSaved, tanks, stockEntries, nozzleReadings,
                   shiftSales, now>>

\* POST /api/manager/logout in session s: the session is cleared and
\* destroyed
ManagerLogout(s) ==
    /\ sessions' = [sessions EXCEPT ![s] = NoSession]
    /\ resp' = [op |-> "managerLogout", status |-> 200]
    /\ UNCHANGED <<staff, calls, shifts, lastSaved, tanks, stockEntries, nozzleReadings,
                   shiftSales, now>>

\* the guard of the manager routes:
\* !(!req.session?.managerId || req.session?.userType !== "manager")
ManagerGuard(s) == sessions[s].managerId # NULL /\ sessions[s].userType = Some("manager")

\* the 401 answer of the guard
Unauthorized(op) ==
    /\ resp' = [op |-> op, status |-> 401]
    /\ UNCHANGED <<staff, sessions, calls, shifts, lastSaved, tanks, stockEntries,
                   nozzleReadings, shiftSales, now>>

\* POST /api/manager/readings in session s
PostReading(s, body) ==
    IF ManagerGuard(s)
    THEN CreateNozzleReading(sessions[s].managerId[1], body)
    ELSE Unauthorized("createNozzleReading")

\* PATCH /api/manager/readings/:id in session s
PatchReading(s, row, patch) ==
    IF ManagerGuard(s)
    THEN UpdateNozzleReading(sessions[s].managerId[1], row, patch)
    ELSE Unauthorized("updateNozzleReading")

\* POST /api/manager/stock in session s
PostStock(s, body) ==
    IF ManagerGuard(s)
    THEN CreateStockEntry(sessions[s].managerId[1], body)
    ELSE Unauthorized("createStockEntry")

\* PATCH /api/manager/stock/:id in session s
PatchStock(s, id, patch) ==
    IF ManagerGuard(s)
    THEN UpdateStockEntry(id, patch)
    ELSE Unauthorized("updateStockEntry")

\* POST /api/manager/submit-shift in session s
PostSubmitShift(s, shiftType, shiftDate) ==
    IF ManagerGuard(s)
    THEN SubmitShift(sessions[s].managerId[1], shiftType, shiftDate)
    ELSE Unauthorized("submitShift")

-----------------------------------------------------------------------------
(* The access specification: two owners delete staff members, and two      *)
(* clients log in and out as managers and call the manager routes          *)

\* owner uA has outlet A, owner uX has none
AccessOwners == {"uA", "uX"}

\* a manager of outlet A, an attendant of outlet B, and an id of no row
AccessStaffIds == {"mA", "s3", "sX"}

\* the phone number and password of manager mA, a wrong password, the
\* credentials of attendant s1, and a body without phone number
AccessCredentials ==
    {<<Some("phone-mA"), Some("pw-mA")>>, <<Some("phone-mA"), Some("pw-mB")>>,
     <<Some("phone-s1"), Some("pw-s1")>>, <<NULL, Some("pw-mA")>>}

AccessStockBody == StockBody("t1", FirstDay, 5, 3)

AccessStockPatch == [openingStock |-> 1]

AccessReadingBody == VolumeBody("n1", FirstDay, 0, 4, NULL)

AccessReadingPatch == [currentReading |-> 7]

\* a request to one of the manager routes in session s
ManagerRequest(s) ==
    \/ PostReading(s, AccessReadingBody)
    \/ \E row \in BagToSet(nozzleReadings) : PatchReading(s, row, AccessReadingPatch)
    \/ PostStock(s, AccessStockBody)
    \/ PatchStock(s, 1, AccessStockPatch)
    \/ PostSubmitShift(s, "morning", FirstDay)

NextAccess ==
    \/ \E u \in AccessOwners, id \in AccessStaffIds : DeleteStaff(u, id)
    \/ \E s \in SessionIds, c \in AccessCredentials : ManagerLogin(s, c[1], c[2])
    \/ \E s \in SessionIds : ManagerLogout(s)
    \/ \E s \in SessionIds : ManagerRequest(s)

SpecAccess == Init /\ [][NextAccess]_vars

\* the last request was DELETE /api/staff/:id
StaffDeleted == resp.op = "deleteStaff"

\* C29: DELETE /api/staff/:id deactivates the staff member, and nothing
\* else, when the member belongs to the outlet of the authenticated owner;
\* it answers 403 for a member of another outlet and 404 for an unknown id
\* or an owner without outlet, and then leaves the staff table unchanged
C29_DeleteOnlyOwnStaff ==
    [][resp'.op = "deleteStaff" =>
         LET u == resp'.user
             id == resp'.id
             outlet == IF u = "uA" THEN "A" ELSE IF u = "uB" THEN "B" ELSE "none"
         IN  IF outlet = "none" \/ id \notin DOMAIN staff
             THEN resp'.status = 404 /\ staff' = staff
             ELSE IF staff[id].retailOutletId # outlet
             THEN resp'.status = 403 /\ staff' = staff
             ELSE /\ resp'.status = 200
                  /\ ~staff'[id].isActive
                  /\ \A other \in DOMAIN staff \ {id} : staff'[other] = staff[other]
                  /\ DOMAIN staff' = DOMAIN staff
                  /\ staff'[id] = [staff[id] EXCEPT !.isActive = FALSE]]_vars

\* the owner of outlet A was refused the deletion of a member of outlet B
\* after deactivating the manager of the own outlet
C29_Witness ==
    /\ StaffDeleted
    /\ resp.status = 403
    /\ resp.user = "uA"
    /\ staff[resp.id].retailOutletId = "B"
    /\ staff[resp.id].isActive
    /\ ~staff["mA"].isActive

\* the tables the manager routes write
ManagerTables == <<nozzleReadings, stockEntries, shifts>>

\* C30: a request to a manager route in a session in which no login that
\* matched an active manager has completed since the session was created
\* or last logged out is answered 401 and writes nothing
C30_WritesNeedLogin ==
    [][\A s \in SessionIds :
          (ManagerRequest(s) /\ ~sessions[s].history)
              => (resp'.status = 401 /\ UNCHANGED ManagerTables)]_vars

\* a manager route was refused after the session's manager logged out,
\* with a stock entry and a submitted shift written while logged in
C30_Witness ==
    /\ resp.status = 401
    /\ resp.op \in {"createStockEntry", "submitShift", "createNozzleReading"}
    /\ \A s \in SessionIds : ~sessions[s].history /\ sessions[s].managerId = NULL
    /\ \E i \in 1..Len(stockEntries) : stockEntries[i].managerId = "mA"
    /\ \E i \in 1..Len(shifts) : shifts[i].managerId = "mA" /\ shifts[i].status = "submitted"


====
